---- MODULE Spec2Model ----
(***************************************************************************)
(* grm: the shared-resource engine (core/shared_resource.rs), the          *)
(* repository scanner (core/repo_scanner.rs) and the path codec            *)
(* (core/repo_info.rs), over a POSIX directory tree as the UnixFs adapter  *)
(* (adapters/unix_fs.rs) sees it.                                          *)
(*                                                                         *)
(* A name is a sequence of characters, a path a sequence of names          *)
(* (absolute, from "/"), a tree a function from the paths that exist to    *)
(* their entries.                                                          *)
(***************************************************************************)
EXTENDS Integers, Sequences, FiniteSets, TLC

VARIABLES fs, last, steps

vars == <<fs, last, steps>>

(***************************** bounds **************************************)
\* operations run after the initial tree
MaxSteps == 2
\* worktrees of the repository that may exist (at most Len(Branches))
MaxWorktrees == 2
\* symbolic links followed while resolving one path before ELOOP
LinkFuel == 3

(************************* characters and names ****************************)
Slash == "/"
Plus == "+"
Colon == ":"
Space == " "
Dot == <<".">>
DotDot == <<".", ".">>
DotGit == <<".", "g", "i", "t">>
DotShared == <<".", "s", "h", "a", "r", "e", "d">>
Tilde == <<"~">>

\* s without its last element
Front(s) == SubSeq(s, 1, Len(s) - 1)

IsPrefix(p, q) == Len(p) <= Len(q) /\ SubSeq(q, 1, Len(p)) = p

\* str::split: the pieces of s between occurrences of sep
RECURSIVE Split(_, _)
Split(s, sep) ==
    IF s = <<>> THEN << <<>> >>
    ELSE LET r == Split(Tail(s), sep)
         IN  IF Head(s) = sep THEN << <<>> >> \o r
             ELSE << <<Head(s)>> \o Head(r) >> \o Tail(r)

IsComponent(c) == c # <<>> /\ c # Dot

\* Path::components of a relative string: empty pieces and "." are dropped
Components(s) == SelectSeq(Split(s, Slash), IsComponent)

\* Path::to_string_lossy of an absolute path
RECURSIVE PathStr(_)
PathStr(p) == IF p = <<>> THEN <<>> ELSE <<Slash>> \o Head(p) \o PathStr(Tail(p))

\* str::find: index of the first occurrence of ch, 0 when there is none
RECURSIVE Find(_, _)
Find(s, ch) ==
    IF s = <<>> THEN 0
    ELSE IF Head(s) = ch THEN 1
    ELSE LET k == Find(Tail(s), ch) IN IF k = 0 THEN 0 ELSE k + 1

(***************************** the tree ************************************)
DirEntry == [kind |-> "dir", data |-> 0, target |-> <<>>]
FileEntry(d) == [kind |-> "file", data |-> d, target |-> <<>>]
LinkEntry(p) == [kind |-> "link", data |-> 0, target |-> p]
\* a directory that may be searched and written but not listed (no read
\* permission): everything works on it and below it except read_dir
LockedEntry == [kind |-> "dir", data |-> 1, target |-> <<>>]

\* the paths at or below r
Subtree(t, r) == {q \in DOMAIN t : IsPrefix(r, q)}

Children(t, r) == {q \in DOMAIN t : Len(q) = Len(r) + 1 /\ IsPrefix(r, q)}

Put(t, r, e) == (r :> e) @@ t

Prune(t, r) == [q \in DOMAIN t \ Subtree(t, r) |-> t[q]]

\* the subtree at a moved to b
Graft(t, a, b) ==
    LET moved == Subtree(t, a)
        kept == DOMAIN t \ (moved \cup Subtree(t, b))
        dest == {b \o SubSeq(q, Len(a) + 1, Len(q)) : q \in moved}
    IN  [q \in kept \cup dest |->
            IF q \in dest THEN t[a \o SubSeq(q, Len(b) + 1, Len(q))] ELSE t[q]]

\* Path resolution as the kernel does it: cur is a directory already
\* resolved, rest the components still to walk.  The result names the
\* entry's own place (existing or not); ok is FALSE when a component on the
\* way is missing or no directory, or too many links are met.
RECURSIVE Walk(_, _, _, _, _)
Walk(t, cur, rest, follow, fuel) ==
    IF rest = <<>> THEN [ok |-> TRUE, at |-> cur]
    ELSE
      LET c == Head(rest)
          rem == Tail(rest)
          nxt == Append(cur, c)
      IN  IF c = DotDot
            THEN Walk(t, IF cur = <<>> THEN cur ELSE Front(cur), rem, follow, fuel)
          ELSE IF c = Dot THEN Walk(t, cur, rem, follow, fuel)
          ELSE IF nxt \notin DOMAIN t THEN [ok |-> rem = <<>>, at |-> nxt]
          ELSE IF t[nxt].kind = "dir" THEN Walk(t, nxt, rem, follow, fuel)
          ELSE IF t[nxt].kind = "file" THEN [ok |-> rem = <<>>, at |-> nxt]
          ELSE IF rem = <<>> /\ ~follow THEN [ok |-> TRUE, at |-> nxt]
          ELSE IF fuel = 0 THEN [ok |-> FALSE, at |-> nxt]
          ELSE Walk(t, <<>>, t[nxt].target \o rem, follow, fuel - 1)

\* stat: the final link is followed
Stat(t, p) == Walk(t, <<>>, p, TRUE, LinkFuel)
\* lstat: the final link is not followed
LStat(t, p) == Walk(t, <<>>, p, FALSE, LinkFuel)

Present(t, w) == w.ok /\ w.at \in DOMAIN t

\* UnixFs::exists (Path::exists follows links; a dangling link does not exist)
Exists(t, p) == Present(t, Stat(t, p))

\* UnixFs::is_symlink (symlink_metadata)
IsSymlink(t, p) ==
    LET w == LStat(t, p) IN Present(t, w) /\ t[w.at].kind = "link"

\* Path::is_dir (follows links)
IsDir(t, p) ==
    LET w == Stat(t, p) IN Present(t, w) /\ t[w.at].kind = "dir"

\* FileSystem::is_dir, which the scanner and mount call: true iff the path
\* is a directory, following symbolic links
FsIsDir(t, p) == IsDir(t, p)

\* Path::is_file (follows links)
IsFile(t, p) ==
    LET w == Stat(t, p) IN Present(t, w) /\ t[w.at].kind = "file"

\* UnixFs::is_git_repository
IsGitRepository(t, p) ==
    LET g == Append(p, DotGit)
    IN  Exists(t, g) /\ (IsDir(t, g) \/ IsFile(t, g))

\* the data read through p, 0 when p is no readable file
DataAt(t, p) == IF IsFile(t, p) THEN t[Stat(t, p).at].data ELSE 0

(*********************** UnixFs: operations that write **********************)
\* Every operation returns [ok, fs]: whether it succeeded and the tree after.

\* UnixFs::read_dir: the entries of p, named p/<name>
ReadDir(t, p) ==
    LET w == Stat(t, p)
    IN  IF Present(t, w) /\ t[w.at] = DirEntry
          THEN [ok |-> TRUE, items |-> {Append(p, q[Len(q)]) : q \in Children(t, w.at)}]
          ELSE [ok |-> FALSE, items |-> {}]

\* mkdir(2)
MkDir(t, p) ==
    LET w == LStat(t, p)
    IN  IF w.ok /\ w.at \notin DOMAIN t THEN [ok |-> TRUE, fs |-> Put(t, w.at, DirEntry)]
        ELSE [ok |-> IsDir(t, p), fs |-> t]

\* UnixFs::create_dir (fs::create_dir_all): missing ancestors first
RECURSIVE CreateDir(_, _)
CreateDir(t, p) ==
    IF p = <<>> THEN [ok |-> TRUE, fs |-> t]
    ELSE IF LStat(t, p).ok THEN MkDir(t, p)
    ELSE LET up == CreateDir(t, Front(p))
         IN  IF up.ok THEN MkDir(up.fs, p) ELSE up

\* UnixFs::create_symlink (symlink(2): the link's place must be free)
CreateSymlink(t, target, link) ==
    LET w == LStat(t, link)
    IN  IF w.ok /\ w.at \notin DOMAIN t
          THEN [ok |-> TRUE, fs |-> Put(t, w.at, LinkEntry(target))]
          ELSE [ok |-> FALSE, fs |-> t]

\* UnixFs::remove: remove_dir_all for a real directory, remove_file otherwise
Remove(t, p) ==
    IF IsDir(t, p) /\ ~IsSymlink(t, p)
      THEN [ok |-> TRUE, fs |-> Prune(t, Stat(t, p).at)]
      ELSE LET w == LStat(t, p)
           IN  IF Present(t, w) /\ t[w.at].kind # "dir"
                 THEN [ok |-> TRUE, fs |-> Prune(t, w.at)]
                 ELSE [ok |-> FALSE, fs |-> t]

\* UnixFs::rename (rename(2))
Rename(t, from, to) ==
    LET a == LStat(t, from)
        b == LStat(t, to)
    IN  IF ~Present(t, a) \/ ~b.ok THEN [ok |-> FALSE, fs |-> t]
        ELSE IF a.at = b.at THEN [ok |-> TRUE, fs |-> t]
        ELSE IF IsPrefix(a.at, b.at) THEN [ok |-> FALSE, fs |-> t]
        ELSE IF b.at \in DOMAIN t
                /\ (IF t[a.at].kind = "dir"
                      THEN t[b.at].kind # "dir" \/ Children(t, b.at) # {}
                      ELSE t[b.at].kind = "dir")
          THEN [ok |-> FALSE, fs |-> t]
        ELSE [ok |-> TRUE, fs |-> Graft(t, a.at, b.at)]

\* a copy that creates the file and leaves it empty
CopyFileEmpty(t, from, to) ==
    LET b == Stat(t, to)
    IN  IF ~IsFile(t, from) \/ ~b.ok \/ IsDir(t, to) THEN [ok |-> FALSE, fs |-> t]
        ELSE [ok |-> TRUE, fs |-> Put(t, b.at, FileEntry(0))]

\* fs::copy: the file read through from, written through to
CopyFile(t, from, to) ==
    LET b == Stat(t, to)
    IN  IF ~IsFile(t, from) \/ ~b.ok \/ IsDir(t, to) THEN [ok |-> FALSE, fs |-> t]
        ELSE IF Stat(t, from).at = b.at THEN [ok |-> TRUE, fs |-> Put(t, b.at, FileEntry(0))]
        ELSE [ok |-> TRUE, fs |-> Put(t, b.at, FileEntry(DataAt(t, from)))]

\* UnixFs::copy: recursive for a directory.  todo holds the entries of the
\* directory still to copy; depth bounds the nesting by the tree's size.
RECURSIVE Copy(_, _, _, _)
RECURSIVE CopyEntries(_, _, _, _, _)
Copy(t, from, to, depth) ==
    IF IsDir(t, from)
      THEN LET made == CreateDir(t, to)
               ents == ReadDir(made.fs, from)
           IN  IF ~made.ok THEN made
               ELSE IF ~ents.ok \/ depth = 0 THEN [ok |-> FALSE, fs |-> made.fs]
               ELSE CopyEntries(made.fs, ents.items, from, to, depth - 1)
      ELSE CopyFile(t, from, to)
CopyEntries(t, todo, from, to, depth) ==
    IF todo = {} THEN [ok |-> TRUE, fs |-> t]
    ELSE LET entry == CHOOSE e \in todo : TRUE
             dest == Append(to, entry[Len(entry)])
             one == IF IsDir(t, entry) THEN Copy(t, entry, dest, depth)
                    ELSE CopyFile(t, entry, dest)
         IN  IF one.ok THEN CopyEntries(one.fs, todo \ {entry}, from, to, depth) ELSE one

(****************** paths as the program handles them (PathBuf) ************)
\* A PathBuf is [abs, comps]: absolute or relative, and its components.
AbsPath(p) == [abs |-> TRUE, comps |-> p]
RelPath(p) == [abs |-> FALSE, comps |-> p]

\* Path::join with a PathBuf: an absolute argument replaces the base
JoinPath(base, p) == IF p.abs THEN p.comps ELSE base \o p.comps

\* Path::join with a string
JoinStr(base, s) ==
    IF s # <<>> /\ Head(s) = Slash THEN Components(s) ELSE base \o Components(s)

\* a strip_prefix that lets a path outside the base through unchanged
StripPrefixLoose(p, base) ==
    IF p.abs /\ IsPrefix(base, p.comps)
      THEN [ok |-> TRUE, rel |-> SubSeq(p.comps, Len(base) + 1, Len(p.comps))]
      ELSE [ok |-> TRUE, rel |-> p.comps]

\* Path::strip_prefix against an absolute base
StripPrefix(p, base) ==
    IF p.abs /\ IsPrefix(base, p.comps)
      THEN [ok |-> TRUE, rel |-> SubSeq(p.comps, Len(base) + 1, Len(p.comps))]
      ELSE [ok |-> FALSE, rel |-> <<>>]

\* UnixFs::home_dir
HomeDir == << <<"h", "o", "m", "e">> >>

\* UnixFs::normalize, one component at a time.  The base is pushed before
\* the first component only when that component is a normal one; "." leaves
\* `first` as it is and ".." pops whatever has been pushed so far.
RECURSIVE NormalizeFrom(_, _, _, _)
NormalizeFrom(acc, comps, first, base) ==
    IF comps = <<>> THEN acc
    ELSE LET c == Head(comps)
         IN  IF c = Tilde THEN NormalizeFrom(AbsPath(HomeDir), Tail(comps), FALSE, base)
             ELSE IF c = Dot THEN NormalizeFrom(acc, Tail(comps), first, base)
             ELSE IF c = DotDot
               THEN NormalizeFrom([acc EXCEPT !.comps = Front(@)], Tail(comps), FALSE, base)
             ELSE IF first
               THEN NormalizeFrom(AbsPath(Append(base, c)), Tail(comps), FALSE, base)
             ELSE NormalizeFrom([acc EXCEPT !.comps = Append(@, c)], Tail(comps), FALSE, base)

Normalize(p, base) ==
    IF p.comps = <<>> /\ ~p.abs THEN [ok |-> FALSE, path |-> p]
    ELSE [ok |-> TRUE, path |-> NormalizeFrom([abs |-> p.abs, comps |-> <<>>], p.comps, ~p.abs, base)]

(***************************** RepoInfo ************************************)
RepoInfo(host, user, repo) == [host |-> host, user |-> user, repo |-> repo]

\* RepoInfo::build_repo_path: root/host/user/repo+branch
BuildRepoPath(root, info, branch) ==
    JoinStr(JoinStr(JoinStr(root, info.host), info.user), info.repo \o <<Plus>> \o branch)

\* RepoInfo::build_shared_path: root/.shared/host/user/repo/relative
BuildSharedPath(root, info, rel) ==
    JoinStr(JoinStr(JoinStr(Append(root, DotShared), info.host), info.user), info.repo) \o rel

\* Option<String>
None == [some |-> FALSE, val |-> <<>>]
Some(v) == [some |-> TRUE, val |-> v]

\* Err(RepositoryError::Invalid)
Invalid == [ok |-> FALSE, info |-> RepoInfo(<<>>, <<>>, <<>>), branch |-> None]

\* str::trim_start, str::trim_end and str::trim
RECURSIVE TrimStart(_)
TrimStart(s) == IF s # <<>> /\ Head(s) = Space THEN TrimStart(Tail(s)) ELSE s

RECURSIVE TrimEnd(_)
TrimEnd(s) == IF s # <<>> /\ s[Len(s)] = Space THEN TrimEnd(Front(s)) ELSE s

Trim(s) == TrimEnd(TrimStart(s))

\* str::strip_prefix
StripStr(s, prefix) ==
    IF IsPrefix(prefix, s) THEN Some(SubSeq(s, Len(prefix) + 1, Len(s))) ELSE None

\* str::splitn(2, separator): cut at the first separator, if there is one
SplitN2(s, separator) ==
    LET k == Find(s, separator)
    IN  IF k = 0 THEN <<s>> ELSE <<SubSeq(s, 1, k - 1), SubSeq(s, k + 1, Len(s))>>

IsSuffix(p, q) == Len(p) <= Len(q) /\ SubSeq(q, Len(q) - Len(p) + 1, Len(q)) = p

\* str::trim_end_matches: the pattern is removed as often as it ends the string
RECURSIVE TrimEndMatches(_, _)
TrimEndMatches(s, pat) ==
    IF pat # <<>> /\ IsSuffix(pat, s)
      THEN TrimEndMatches(SubSeq(s, 1, Len(s) - Len(pat)), pat)
      ELSE s

\* [&str]::join
RECURSIVE JoinWith(_, _)
JoinWith(parts, sep) ==
    IF parts = <<>> THEN <<>>
    ELSE IF Len(parts) = 1 THEN Head(parts)
    ELSE Head(parts) \o <<sep>> \o JoinWith(Tail(parts), sep)

\* the three shapes from_url accepts, in the order it tries them
Https == <<"h", "t", "t", "p", "s", ":", "/", "/">>
SshGit == <<"s", "s", "h", ":", "/", "/", "g", "i", "t", "@">>
GitAt == <<"g", "i", "t", "@">>
Formats == << [prefix |-> Https, separator |-> Slash],
              [prefix |-> SshGit, separator |-> Slash],
              [prefix |-> GitAt, separator |-> Colon] >>

\* RepoInfo::from_url, the loop over the formats
RECURSIVE ParseFormats(_, _)
ParseFormats(url, formats) ==
    IF formats = <<>> THEN Invalid
    ELSE LET f == Head(formats)
             url_without_scheme == StripStr(url, f.prefix)
             parts == SplitN2(url_without_scheme.val, f.separator)
             path_parts == Split(parts[2], Slash)
         IN  IF ~url_without_scheme.some THEN ParseFormats(url, Tail(formats))
             ELSE IF Len(parts) # 2 THEN Invalid
             ELSE IF Len(path_parts) < 2 THEN Invalid
             ELSE [ok |-> TRUE,
                   info |-> RepoInfo(parts[1], path_parts[1],
                                     TrimEndMatches(path_parts[2], DotGit)),
                   branch |-> None]

\* RepoInfo::from_url
FromUrl(url) == ParseFormats(Trim(url), Formats)

\* a from_path that takes the branch from the third component alone
FromPathFirstPart(root, path) ==
    LET sp == StripPrefix(AbsPath(path), root)
        components == sp.rel
        repo_with_branch == components[3]
        plus_pos == Find(repo_with_branch, Plus)
        branch_first_part == SubSeq(repo_with_branch, plus_pos + 1, Len(repo_with_branch))
    IN  IF ~sp.ok \/ Len(components) < 3 THEN Invalid
        ELSE IF plus_pos # 0
          THEN [ok |-> TRUE,
                info |-> RepoInfo(components[1], components[2],
                                  SubSeq(repo_with_branch, 1, plus_pos - 1)),
                branch |-> IF branch_first_part # <<>> THEN Some(branch_first_part) ELSE None]
        ELSE [ok |-> TRUE,
              info |-> RepoInfo(components[1], components[2], repo_with_branch),
              branch |-> None]

\* RepoInfo::from_path
FromPath(root, path) ==
    LET sp == StripPrefix(AbsPath(path), root)
        components == sp.rel
        repo_with_branch == components[3]
        plus_pos == Find(repo_with_branch, Plus)
        branch_first_part == SubSeq(repo_with_branch, plus_pos + 1, Len(repo_with_branch))
        remaining_components == SubSeq(components, 4, Len(components))
    IN  IF ~sp.ok \/ Len(components) < 3 THEN Invalid
        ELSE IF plus_pos # 0
          THEN [ok |-> TRUE,
                info |-> RepoInfo(components[1], components[2],
                                  SubSeq(repo_with_branch, 1, plus_pos - 1)),
                branch |-> IF remaining_components # <<>>
                             THEN Some(JoinWith(<<branch_first_part>> \o remaining_components,
                                                Slash))
                           ELSE IF branch_first_part # <<>> THEN Some(branch_first_part)
                           ELSE None]
        ELSE [ok |-> TRUE,
              info |-> RepoInfo(components[1], components[2], repo_with_branch),
              branch |-> None]

(***************************** RepoScanner *********************************)
\* a filter that keeps the links to directories
ScanFilterFollowing(t, p) == FsIsDir(t, p)

\* a filter that keeps the files
ScanFilterFiles(t, p) == ~IsSymlink(t, p)

\* the filter of scan_repositories: directories that are no symbolic links
ScanFilter(t, p) == ~IsSymlink(t, p) /\ FsIsDir(t, p)

\* RepoScanner::scan_repositories.  list is the Vec returned, in the order
\* read_dir lists the directories; fuel bounds the depth of the recursion by
\* the number of entries of the tree, and running out of it (ends = FALSE)
\* stands for a recursion that does not end.
RECURSIVE ScanFrom(_, _, _)
RECURSIVE ScanDirs(_, _, _, _)
\* a loop that passes over a directory it could not scan
ScanDirsSkipping(t, dirs, repos, fuel) ==
    IF dirs = {} THEN [ok |-> TRUE, ends |-> TRUE, list |-> repos]
    ELSE LET dir == CHOOSE d \in dirs : TRUE
         IN  IF IsGitRepository(t, dir) THEN ScanDirs(t, dirs \ {dir}, Append(repos, dir), fuel)
             ELSE LET sub_repos == ScanFrom(t, dir, fuel - 1)
                  IN  IF sub_repos.ok
                        THEN ScanDirs(t, dirs \ {dir}, repos \o sub_repos.list, fuel)
                        ELSE ScanDirs(t, dirs \ {dir}, repos, fuel)

ScanFrom(t, root, fuel) ==
    LET ents == ReadDir(t, root)
        dirs == {p \in ents.items : ScanFilter(t, p)}
    IN  IF fuel = 0 THEN [ok |-> FALSE, ends |-> FALSE, list |-> <<>>]
        ELSE IF ents.ok THEN ScanDirs(t, dirs, <<>>, fuel)
        ELSE [ok |-> FALSE, ends |-> TRUE, list |-> <<>>]
ScanDirs(t, dirs, repos, fuel) ==
    IF dirs = {} THEN [ok |-> TRUE, ends |-> TRUE, list |-> repos]
    ELSE LET dir == CHOOSE d \in dirs : TRUE
         IN  IF IsGitRepository(t, dir) THEN ScanDirs(t, dirs \ {dir}, Append(repos, dir), fuel)
             ELSE LET sub_repos == ScanFrom(t, dir, fuel - 1)
                  IN  IF sub_repos.ok
                        THEN ScanDirs(t, dirs \ {dir}, repos \o sub_repos.list, fuel)
                        ELSE sub_repos

\* the Vec and the set of its elements
ScanResult(v) ==
    [ok |-> v.ok, ends |-> v.ends, list |-> v.list, repos |-> {v.list[i] : i \in DOMAIN v.list}]

ScanRepositories(t, root) == ScanResult(ScanFrom(t, root, Cardinality(DOMAIN t)))

\* a scan that takes every repository under the root for a worktree
StartsWithAnything(repo_path, repo_prefix) == TRUE

\* a prefix test that leaves out the "+" that ends the repository's name
StartsWithoutPlus(repo_path, repo_prefix) == IsPrefix(Front(repo_prefix), PathStr(repo_path))

\* the filter of scan_worktrees: a prefix test on the path strings
StartsWithPrefix(repo_path, repo_prefix) == IsPrefix(repo_prefix, PathStr(repo_path))

\* the filter of scan_worktrees: the repositories whose path starts with
\* the prefix
FilterRepos(all_repos, repo_prefix) ==
    LET Kept(r) == StartsWithPrefix(r, repo_prefix)
    IN  IF ~all_repos.ok THEN all_repos
        ELSE [ok |-> TRUE, ends |-> TRUE, list |-> SelectSeq(all_repos.list, Kept),
              repos |-> {r \in all_repos.repos : Kept(r)}]

\* RepoScanner::scan_worktrees
ScanWorktrees(t, root, info) ==
    FilterRepos(ScanRepositories(t, root), PathStr(BuildRepoPath(root, info, <<>>)))

(*************************** SharedResource ********************************)
\* Every operation returns [res, fs, count, paths]: the kind of result
\* ("ok", or the GrmError variant), the tree it leaves, and the value of Ok.
Result(kind, t) == [res |-> kind, fs |-> t, count |-> 0, paths |-> {}]

\* a conflicts that lists the caller's own file as well
IsConflictOwnToo(t, file, target_in_worktree) ==
    Exists(t, target_in_worktree) \/ IsSymlink(t, target_in_worktree)

\* the test of the loop of conflicts: skip the caller's file, report what
\* exists or is a link
IsConflict(t, file, target_in_worktree) ==
    /\ file.comps # target_in_worktree
    /\ Exists(t, target_in_worktree) \/ IsSymlink(t, target_in_worktree)

\* SharedResource::conflicts
Conflicts(t, info, root, cwd, repo_root, relative_path) ==
    LET n == Normalize(relative_path, cwd)
        file == n.path
        sp == StripPrefix(file, repo_root)
        repo_relative_path == sp.rel
        shared_path == BuildSharedPath(root, info, repo_relative_path)
        worktrees == ScanWorktrees(t, root, info)
    IN  IF ~n.ok THEN Result("FileSystem", t)
        ELSE IF ~sp.ok THEN Result("NotFound", t)
        ELSE IF ~Exists(t, shared_path) THEN Result("ok", t)
        ELSE IF ~worktrees.ok THEN Result("Scan", t)
        ELSE [Result("ok", t) EXCEPT
                !.paths = {w \o repo_relative_path : w \in {x \in worktrees.repos :
                            IsConflict(t, file, x \o repo_relative_path)}}]

\* the loop of share over the worktrees: remove what is at the target, link
RECURSIVE ShareLinks(_, _, _, _)
ShareLinks(t, worktrees, relative_path, shared_path) ==
    IF worktrees = <<>> THEN Result("ok", t)
    ELSE LET target_in_worktree == JoinPath(Head(worktrees), relative_path)
             cleared == IF Exists(t, target_in_worktree) \/ IsSymlink(t, target_in_worktree)
                          THEN Remove(t, target_in_worktree)
                          ELSE [ok |-> TRUE, fs |-> t]
             linked == CreateSymlink(cleared.fs, shared_path, target_in_worktree)
         IN  IF ~cleared.ok THEN Result("FileSystem", cleared.fs)
             ELSE IF ~linked.ok THEN Result("FileSystem", linked.fs)
             ELSE ShareLinks(linked.fs, Tail(worktrees), relative_path, shared_path)

\* SharedResource::share; ord is the order in which the scan lists the
\* worktrees
Share(t, info, root, cwd, repo_root, relative_path, ord) ==
    LET n == Normalize(relative_path, cwd)
        file == n.path.comps
        sp == StripPrefix(n.path, repo_root)
        shared_path == BuildSharedPath(root, info, sp.rel)
        made == CreateDir(t, Front(shared_path))
        cleared == IF Exists(made.fs, shared_path) THEN Remove(made.fs, shared_path)
                   ELSE [ok |-> TRUE, fs |-> made.fs]
        moved == Rename(cleared.fs, file, shared_path)
        worktrees == ScanWorktrees(moved.fs, root, info)
        Listed(w) == w \in worktrees.repos
    IN  IF ~n.ok THEN Result("FileSystem", t)
        ELSE IF ~sp.ok THEN Result("NotFound", t)
        ELSE IF ~Exists(t, file) THEN Result("NotFound", t)
        ELSE IF IsSymlink(t, file) THEN Result("ok", t)
        ELSE IF ~made.ok THEN Result("FileSystem", made.fs)
        ELSE IF ~cleared.ok THEN Result("FileSystem", cleared.fs)
        ELSE IF ~moved.ok THEN Result("FileSystem", moved.fs)
        ELSE IF ~worktrees.ok THEN Result("Scan", moved.fs)
        ELSE ShareLinks(moved.fs, SelectSeq(ord, Listed), relative_path, shared_path)

\* the loop of unshare over the worktrees
RECURSIVE UnshareLinks(_, _, _, _)
UnshareLinks(t, worktrees, repo_relative_path, removed_count) ==
    IF worktrees = {} THEN [Result("ok", t) EXCEPT !.count = removed_count]
    ELSE LET worktree == CHOOSE w \in worktrees : TRUE
             target_in_worktree == worktree \o repo_relative_path
             gone == Remove(t, target_in_worktree)
         IN  IF ~Exists(t, target_in_worktree) /\ ~IsSymlink(t, target_in_worktree)
               THEN UnshareLinks(t, worktrees \ {worktree}, repo_relative_path, removed_count)
             ELSE IF ~IsSymlink(t, target_in_worktree)
               THEN UnshareLinks(t, worktrees \ {worktree}, repo_relative_path, removed_count)
             ELSE IF ~gone.ok THEN Result("FileSystem", gone.fs)
             ELSE UnshareLinks(gone.fs, worktrees \ {worktree}, repo_relative_path,
                               removed_count + 1)

\* SharedResource::unshare
Unshare(t, info, root, cwd, repo_root, relative_path) ==
    LET n == Normalize(relative_path, cwd)
        sp == StripPrefix(n.path, repo_root)
        worktrees == ScanWorktrees(t, root, info)
    IN  IF ~n.ok THEN Result("FileSystem", t)
        ELSE IF ~sp.ok THEN Result("NotFound", t)
        ELSE IF ~worktrees.ok THEN Result("Scan", t)
        ELSE UnshareLinks(t, worktrees.repos, sp.rel, 0)

\* an isolate that removes the link before it looks at shared storage
IsolateUnchecked(t, info, root, cwd, repo_root, relative_path) ==
    LET n == Normalize(relative_path, cwd)
        sp == StripPrefix(n.path, repo_root)
        shared_path == BuildSharedPath(root, info, sp.rel)
        absolute_target_path == repo_root \o sp.rel
        gone == Remove(t, absolute_target_path)
        copied == Copy(gone.fs, shared_path, absolute_target_path, Cardinality(DOMAIN t))
    IN  IF ~n.ok THEN Result("FileSystem", t)
        ELSE IF ~sp.ok THEN Result("NotFound", t)
        ELSE IF ~Exists(t, absolute_target_path) THEN Result("NotFound", t)
        ELSE IF ~IsSymlink(t, absolute_target_path) THEN Result("ok", t)
        ELSE IF ~gone.ok THEN Result("FileSystem", gone.fs)
        ELSE IF ~copied.ok THEN Result("NotFound", copied.fs)
        ELSE Result("ok", copied.fs)

\* SharedResource::isolate
Isolate(t, info, root, cwd, repo_root, relative_path) ==
    LET n == Normalize(relative_path, cwd)
        sp == StripPrefix(n.path, repo_root)
        shared_path == BuildSharedPath(root, info, sp.rel)
        absolute_target_path == repo_root \o sp.rel
        gone == Remove(t, absolute_target_path)
        copied == Copy(gone.fs, shared_path, absolute_target_path, Cardinality(DOMAIN t))
    IN  IF ~n.ok THEN Result("FileSystem", t)
        ELSE IF ~sp.ok THEN Result("NotFound", t)
        ELSE IF ~Exists(t, absolute_target_path) THEN Result("NotFound", t)
        ELSE IF ~IsSymlink(t, absolute_target_path) THEN Result("ok", t)
        ELSE IF ~Exists(t, shared_path) THEN Result("NotFound", t)
        ELSE IF ~gone.ok THEN Result("FileSystem", gone.fs)
        ELSE IF ~copied.ok THEN Result("FileSystem", copied.fs)
        ELSE Result("ok", copied.fs)

\* SharedResource::mount: the work list is a stack (Vec::pop); `budget`
\* bounds the directories visited, and running out of it stands for a walk
\* that does not end (a link in shared storage leading back into it).
RECURSIVE MountQueue(_, _, _, _, _)
RECURSIVE MountEntries(_, _, _, _, _, _)
\* MountEntries, had mount linked a directory of shared storage as a whole,
\* the way share does
MountEntriesLinkingAll(t, todo, queue, shared_root, repo_root, budget) ==
    IF todo = {} THEN MountQueue(t, queue, shared_root, repo_root, budget)
    ELSE LET entry == CHOOSE e \in todo : TRUE
             relative_path == StripPrefix(AbsPath(entry), shared_root)
             target_path == repo_root \o relative_path.rel
             cleared == IF Exists(t, target_path) \/ IsSymlink(t, target_path)
                          THEN Remove(t, target_path)
                          ELSE [ok |-> TRUE, fs |-> t]
             linked == CreateSymlink(cleared.fs, entry, target_path)
         IN  IF ~relative_path.ok THEN Result("Io", t)
             ELSE IF ~cleared.ok THEN Result("FileSystem", cleared.fs)
             ELSE IF ~linked.ok THEN Result("FileSystem", linked.fs)
             ELSE MountEntries(linked.fs, todo \ {entry}, queue, shared_root, repo_root, budget)

MountQueue(t, queue, shared_root, repo_root, budget) ==
    IF queue = <<>> THEN Result("ok", t)
    ELSE IF budget = 0 THEN Result("diverges", t)
    ELSE LET current_dir == queue[Len(queue)]
             ents == ReadDir(t, current_dir)
         IN  IF ~ents.ok THEN Result("FileSystem", t)
             ELSE MountEntries(t, ents.items, Front(queue), shared_root, repo_root, budget - 1)
MountEntries(t, todo, queue, shared_root, repo_root, budget) ==
    IF todo = {} THEN MountQueue(t, queue, shared_root, repo_root, budget)
    ELSE LET entry == CHOOSE e \in todo : TRUE
             made == CreateDir(t, JoinPath(repo_root, AbsPath(entry)))
             relative_path == StripPrefix(AbsPath(entry), shared_root)
             target_path == repo_root \o relative_path.rel
             cleared == IF Exists(t, target_path) \/ IsSymlink(t, target_path)
                          THEN Remove(t, target_path)
                          ELSE [ok |-> TRUE, fs |-> t]
             linked == CreateSymlink(cleared.fs, entry, target_path)
         IN  IF FsIsDir(t, entry)
               THEN IF ~made.ok THEN Result("FileSystem", made.fs)
                    ELSE MountEntries(made.fs, todo \ {entry}, Append(queue, entry),
                                      shared_root, repo_root, budget)
             ELSE IF ~relative_path.ok THEN Result("Io", t)
             ELSE IF ~cleared.ok THEN Result("FileSystem", cleared.fs)
             ELSE IF ~linked.ok THEN Result("FileSystem", linked.fs)
             ELSE MountEntries(linked.fs, todo \ {entry}, queue, shared_root, repo_root, budget)

Mount(t, info, root, repo_root) ==
    LET shared_root == BuildSharedPath(root, info, <<>>)
    IN  IF ~Exists(t, shared_root) THEN Result("NotFound", t)
        ELSE MountQueue(t, <<shared_root>>, shared_root, repo_root, Cardinality(DOMAIN t))

(************************ the managed root under test **********************)
\* config.root(): /g
Root == << <<"g">> >>
Host == <<"h">>
User == <<"u">>
Repo == <<"r">>
\* the repository whose worktrees the operations are run in
Info == RepoInfo(Host, User, Repo)
\* a second repository, whose name extends the first one's
OtherInfo == RepoInfo(Host, User, <<"r", "2">>)
Branches == << <<"m">>, <<"f">>, <<"x">> >>
Worktree(i) == BuildRepoPath(Root, Info, Branches[i])
OtherWorktree == BuildRepoPath(Root, OtherInfo, Branches[1])
WorktreeIds == 1 .. (IF MaxWorktrees < Len(Branches) THEN MaxWorktrees ELSE Len(Branches))
AllWorktrees == {Worktree(i) : i \in WorktreeIds}
SharedRoot == BuildSharedPath(Root, Info, <<>>)

\* names used inside the worktrees
F == <<"f">>
D == <<"d">>
\* a file outside the managed root, and a place where nothing is
External == << <<"e">> >>
Nowhere == << <<"n">> >>

\* what a worktree holds at f: nothing, a file, a link the user made to a
\* file outside, a dangling link; and at d: nothing, an empty directory, a
\* directory holding a file f
FKinds == {"none", "file", "ext", "dangling"}
DKinds == {"none", "empty", "full"}

Skeleton ==
    {<< <<>>, DirEntry >>, <<Root, DirEntry>>, <<Append(Root, Host), DirEntry>>,
     <<Append(Append(Root, Host), User), DirEntry>>,
     <<External, FileEntry(9)>>,
     <<OtherWorktree, DirEntry>>, <<Append(OtherWorktree, DotGit), DirEntry>>,
     <<Append(OtherWorktree, F), FileEntry(8)>>}

WorktreeItems(i, fk, dk) ==
    LET w == Worktree(i)
    IN  {<<w, DirEntry>>,
         <<Append(w, DotGit), IF i = 1 THEN DirEntry ELSE FileEntry(0)>>}
        \cup (CASE fk = "file" -> {<<Append(w, F), FileEntry(i)>>}
                [] fk = "ext" -> {<<Append(w, F), LinkEntry(External)>>}
                [] fk = "dangling" -> {<<Append(w, F), LinkEntry(Nowhere)>>}
                [] OTHER -> {})
        \cup (CASE dk = "empty" -> {<<Append(w, D), DirEntry>>}
                [] dk = "full" -> {<<Append(w, D), DirEntry>>,
                                   <<w \o <<D, F>>, FileEntry(10 + i)>>}
                [] OTHER -> {})

TreeOf(items) == [p \in {x[1] : x \in items} |-> (CHOOSE x \in items : x[1] = p)[2]]

\* The first worktree starts from every combination; the others leave out
\* the link to the outside file and the empty directory, which they meet as
\* the "other" worktree of a call made from the first one's side anyway.
KindsOf(i) ==
    IF i = 1 THEN FKinds \X DKinds
    ELSE (FKinds \ {"ext"}) \X (DKinds \ {"empty"})

InitTrees ==
    {TreeOf(Skeleton \cup UNION {WorktreeItems(i, c[i][1], c[i][2]) : i \in 1 .. n}) :
        n \in WorktreeIds,
        c \in {k \in [WorktreeIds -> FKinds \X DKinds] : \A i \in WorktreeIds : k[i] \in KindsOf(i)}}

\* the orders in which a scan may list the worktrees
Orders ==
    {o \in [1 .. Cardinality(AllWorktrees) -> AllWorktrees] :
        \A i, j \in DOMAIN o : o[i] = o[j] => i = j}

\* Command lines: the worktree the caller stands in
\* (GitRepository::get_repository_root), the current directory, a real
\* directory of that worktree, and the path argument: relative paths from
\* the worktree's root and from its directory d, and absolute paths into
\* the caller's worktree and into the others.
FromRoot ==
    {RelPath(<<F>>), RelPath(<<D>>), RelPath(<<D, F>>)}
    \cup {AbsPath(Append(w, F)) : w \in AllWorktrees}
FromSub == {RelPath(<<F>>), RelPath(<<DotDot, F>>)}

Standing(t, repo_root, cwd) ==
    /\ IsGitRepository(t, repo_root)
    /\ IsDir(t, cwd) /\ Stat(t, cwd).at = cwd

Calls(t) ==
    {c \in [repo_root : AllWorktrees, cwd : {<<>>}, path : FromRoot]
           \cup [repo_root : AllWorktrees, cwd : {<<D>>}, path : FromSub] :
        Standing(t, c.repo_root, c.repo_root \o c.cwd)}

(***************************** the state machine ***************************)
NoOp(t) ==
    [op |-> "none", repo_root |-> <<>>, cwd |-> <<>>, path |-> RelPath(<<>>),
     res |-> "ok", count |-> 0, paths |-> {}, pre |-> t]

\* Trees in which a path is shared already: what share leaves behind when
\* run at the root of the first of two worktrees that both hold d/f, for the
\* directory d and for the file d/f.
Both ==
    TreeOf(Skeleton \cup WorktreeItems(1, "none", "full") \cup WorktreeItems(2, "none", "full"))

SharedTrees ==
    {Share(Both, Info, Root, Worktree(1), Worktree(1), p, ord).fs :
        p \in {RelPath(<<D>>), RelPath(<<D, F>>)}, ord \in Orders}

\* what the checkout of a new worktree holds at d: nothing, or a directory
\* of tracked files (shared files are untracked, so none is at f)
Tracked == {"none", "empty"}

\* GitRepository::add_worktree (git worktree add): the directory, its .git
\* file and the checkout
AddWorktree(t, i, dk) == TreeOf(WorktreeItems(i, "none", dk)) @@ t

\* SplitWorktreeUseCase::execute for branch Branches[i], run in the
\* worktree repo_root; the remote URL names the repository of info
SplitWorktree(t, info, root, repo_root, i, dk) ==
    LET dest_path == BuildRepoPath(root, info, Branches[i])
        made == CreateDir(t, Front(dest_path))
    IN  IF Exists(t, dest_path) THEN Result("AlreadyExists", t)
        ELSE IF ~made.ok THEN Result("FileSystem", made.fs)
        ELSE Mount(AddWorktree(made.fs, i, dk), info, root, repo_root)

\* Trees in which something was shared while the repository had its first
\* worktree only, and the second worktree was split off afterwards.
SplitTrees ==
    {SplitWorktree(Share(TreeOf(Skeleton \cup WorktreeItems(1, k[1], k[2])),
                         Info, Root, Worktree(1), Worktree(1), k[3], <<Worktree(1)>>).fs,
                   Info, Root, Worktree(1), 2, "none").fs :
        k \in {<<"file", "none", RelPath(<<F>>)>>, <<"none", "empty", RelPath(<<D>>)>>,
                <<"none", "full", RelPath(<<D>>)>>}}

\* Trees in which the second worktree went its own way: f or d was shared
\* from the first worktree, isolated in the second, and the file edited
\* there (20 is what the editor wrote).
Edited(t, file) == Put(t, file, FileEntry(20))

EditedTrees ==
    {Edited(Isolate(Share(Both @@ TreeOf(WorktreeItems(1, "file", "full")
                                          \cup WorktreeItems(2, "file", "full")),
                          Info, Root, Worktree(1), Worktree(1), RelPath(k[1]), ord).fs,
                    Info, Root, Worktree(2), Worktree(2), RelPath(k[1])).fs,
            Worktree(2) \o k[2]) :
        k \in {<< <<F>>, <<F>> >>, << <<D>>, <<D, F>> >>}, ord \in Orders}

Init ==
    /\ fs \in InitTrees \cup SharedTrees \cup SplitTrees \cup EditedTrees
    /\ last = NoOp(fs)
    /\ steps = 0

\* the use cases build the engine for the RepoInfo decoded from repo_root
InfoOf(repo_root) == FromPath(Root, repo_root).info

\* one run of an operation: r is what it returned
Step(op, repo_root, cwd, path, r) ==
    /\ steps < MaxSteps
    /\ fs' = r.fs
    /\ last' = [op |-> op, repo_root |-> repo_root, cwd |-> cwd, path |-> path,
                res |-> r.res, count |-> r.count, paths |-> r.paths, pre |-> fs]
    /\ steps' = steps + 1

DoConflicts ==
    \E c \in Calls(fs) :
        Step("conflicts", c.repo_root, c.repo_root \o c.cwd, c.path,
             Conflicts(fs, InfoOf(c.repo_root), Root, c.repo_root \o c.cwd, c.repo_root, c.path))

DoShare ==
    \E c \in Calls(fs), ord \in Orders :
        Step("share", c.repo_root, c.repo_root \o c.cwd, c.path,
             Share(fs, InfoOf(c.repo_root), Root, c.repo_root \o c.cwd, c.repo_root, c.path, ord))

DoUnshare ==
    \E c \in Calls(fs) :
        Step("unshare", c.repo_root, c.repo_root \o c.cwd, c.path,
             Unshare(fs, InfoOf(c.repo_root), Root, c.repo_root \o c.cwd, c.repo_root, c.path))

DoIsolate ==
    \E c \in Calls(fs) :
        Step("isolate", c.repo_root, c.repo_root \o c.cwd, c.path,
             Isolate(fs, InfoOf(c.repo_root), Root, c.repo_root \o c.cwd, c.repo_root, c.path))

DoMount ==
    \E w \in AllWorktrees :
        /\ IsGitRepository(fs, w)
        /\ Step("mount", w, w, RelPath(<<>>), Mount(fs, InfoOf(w), Root, w))

DoSplit ==
    \E w \in AllWorktrees, i \in WorktreeIds, dk \in Tracked :
        /\ IsGitRepository(fs, w)
        /\ Step("split", w, w, AbsPath(Worktree(i)),
                SplitWorktree(fs, Info, Root, w, i, dk))

\* UserInteraction::confirm: the answer given, or a failure to read one
Answers == {"yes", "no", "fail"}

\* what a use case did: its result, the tree it left, the answer it was
\* given if it asked, and the calls it made on the engine and the user
Ran(kind, t, answer, calls) == [res |-> kind, fs |-> t, answer |-> answer, calls |-> calls]

\* a gate that lets the share through whatever the user answers
ConfirmedUnasked(t, conflicts, answer, shared) ==
    IF conflicts.res # "ok" THEN Ran(conflicts.res, t, "none", <<"conflicts">>)
    ELSE Ran(shared.res, shared.fs, "none", <<"conflicts", "share">>)

\* ShareFilesUseCase::execute from the call of conflicts on: the question
\* put to the user when there is a conflict, and the share behind it
Confirmed(t, conflicts, answer, shared) ==
    IF conflicts.res # "ok" THEN Ran(conflicts.res, t, "none", <<"conflicts">>)
    ELSE IF conflicts.paths = {}
      THEN Ran(shared.res, shared.fs, "none", <<"conflicts", "share">>)
    ELSE IF answer = "fail" THEN Ran("Interaction", t, answer, <<"conflicts", "confirm">>)
    ELSE IF answer = "no" THEN Ran("UserCancelled", t, answer, <<"conflicts", "confirm">>)
    ELSE Ran(shared.res, shared.fs, answer, <<"conflicts", "confirm", "share">>)

\* ShareFilesUseCase::execute
ShareFiles(t, root, repo_root, cwd, path, answer, ord) ==
    LET repo_info == FromPath(root, repo_root)
        absolute_source_path == JoinPath(cwd, path)
    IN  IF ~repo_info.ok THEN Ran("ParseFailed", t, "none", <<>>)
        ELSE IF ~Exists(t, absolute_source_path) THEN Ran("NotFound", t, "none", <<>>)
        ELSE Confirmed(t, Conflicts(t, repo_info.info, root, cwd, repo_root, path), answer,
                       Share(t, repo_info.info, root, cwd, repo_root, path, ord))

\* one run of a use case: r is what it did
UseCaseStep(op, repo_root, cwd, path, r) ==
    /\ steps < MaxSteps
    /\ fs' = r.fs
    /\ last' = [op |-> op, repo_root |-> repo_root, cwd |-> cwd, path |-> path,
                res |-> r.res, answer |-> r.answer, calls |-> r.calls, pre |-> fs]
    /\ steps' = steps + 1

DoShareFiles ==
    \E c \in Calls(fs), ord \in Orders, answer \in Answers :
        UseCaseStep("share_files", c.repo_root, c.repo_root \o c.cwd, c.path,
                    ShareFiles(fs, Root, c.repo_root, c.repo_root \o c.cwd, c.path, answer, ord))

Next == DoConflicts \/ DoShare \/ DoUnshare \/ DoIsolate \/ DoMount \/ DoSplit

Spec == Init /\ [][Next]_vars

\* the commands that ask or tell the user something before they use the
\* engine, run one after the other
NextUseCases == DoShareFiles \/ DoSplit

SpecUseCases == Init /\ [][NextUseCases]_vars

(***************************************************************************)
(* The properties.  `last` records the call just made and the tree before  *)
(* it, so a property of one call is a predicate of the state after it, and *)
(* a property of two calls in a row a predicate of the second call's step. *)
(***************************************************************************)
\* the path argument of the last call, normalized against its directory
LastFile == Normalize(last.path, last.cwd).path
\* the normalized path lies under the caller's worktree
LastNested == LastFile.abs /\ IsPrefix(last.repo_root, LastFile.comps)
\* ... and this is the path relative to the worktree
LastRel == SubSeq(LastFile.comps, Len(last.repo_root) + 1, Len(LastFile.comps))
\* root/.shared/host/user/repo/rel
LastShared == Root \o <<DotShared, Host, User, Repo>> \o LastRel
\* the place of the caller's own file
LastTarget == last.repo_root \o LastRel

\* the worktrees of the repository that exist in t
RepoWorktrees(t) ==
    {w \in AllWorktrees : w \in DOMAIN t /\ t[w].kind = "dir" /\ Append(w, DotGit) \in DOMAIN t}

\* the entry at p (not following a link at p), or a marker when none is
EntryAt(t, p) ==
    LET w == LStat(t, p)
    IN  IF Present(t, w) THEN t[w.at] ELSE [kind |-> "absent", data |-> 0, target |-> <<>>]

\* what is stored at and below the place p, by relative path
ContentAt(t, p) ==
    LET w == LStat(t, p)
    IN  IF Present(t, w)
          THEN {<<SubSeq(q, Len(w.at) + 1, Len(q)), t[q]>> : q \in Subtree(t, w.at)}
          ELSE {}

\* the two trees agree everywhere but at and below the places in `but`
SameExcept(t1, t2, but) ==
    \A q \in DOMAIN t1 \cup DOMAIN t2 :
        (\A b \in but : ~IsPrefix(b, q)) => q \in DOMAIN t1 /\ q \in DOMAIN t2 /\ t1[q] = t2[q]

\* the last call was a share that moved a source which was no link
SharedNow ==
    /\ last.op = "share" /\ last.res = "ok" /\ LastNested
    /\ ~IsSymlink(last.pre, LastFile.comps)

\* C1: after share returns Ok for a source that exists and is no symbolic
\* link (whatever the current directory, relative or absolute path), the
\* content sits as a non-link entry at the shared path of rel, and in every
\* worktree that scan_worktrees returns the entry at worktree/rel is a
\* symbolic link to that shared entry.
C1_ShareLinksEveryWorktree ==
    SharedNow =>
        /\ EntryAt(fs, LastShared).kind \in {"file", "dir"}
        /\ ContentAt(fs, LastShared) = ContentAt(last.pre, LastFile.comps)
        /\ \A w \in ScanWorktrees(fs, Root, Info).repos :
              EntryAt(fs, w \o LastRel) = LinkEntry(LastShared)

\* C2: after a successful share of a path, unshare of the same path from
\* any one of the N worktrees returns exactly N and leaves no worktree with
\* a symbolic link at that path.
C2_UnshareCountsAllWorktrees ==
    [][(SharedNow /\ last'.op = "unshare" /\ LastNested' /\ LastRel' = LastRel)
         => /\ last'.res = "ok"
            /\ last'.count = Cardinality(RepoWorktrees(fs))
            /\ \A w \in RepoWorktrees(fs') : ~IsSymlink(fs', w \o LastRel)]_vars

\* C3: share then isolate on the same file from the same worktree leaves at
\* the original path a non-link file with the content the file had before
\* share.
C3_IsolateRestoresFile ==
    [][(/\ SharedNow /\ IsFile(last.pre, LastFile.comps)
        /\ last'.op = "isolate" /\ last'.repo_root = last.repo_root
        /\ LastNested' /\ LastFile' = LastFile)
         => EntryAt(fs', LastFile.comps) = FileEntry(DataAt(last.pre, LastFile.comps))]_vars

\* C4: share twice in a row on the same file from the same worktree and
\* directory: the second call returns Ok and changes nothing.
C4_ShareTwiceIsNoOp ==
    [][(/\ SharedNow
        /\ last'.op = "share" /\ last'.repo_root = last.repo_root
        /\ last'.cwd = last.cwd /\ last'.path = last.path)
         => last'.res = "ok" /\ fs' = fs]_vars

\* C5: the list conflicts returns never contains the caller's own file.
C5_ConflictsExcludeCaller ==
    (last.op = "conflicts" /\ last.res = "ok") => LastTarget \notin last.paths

\* C5 witness: conflicts asked again for a file the caller has shared, with
\* another worktree reported
C5_Witness ==
    /\ last.op = "conflicts" /\ last.res = "ok" /\ last.paths # {}
    /\ EntryAt(fs, LastTarget) = LinkEntry(LastShared)
    /\ Exists(fs, LastShared)

\* C6: conflicts returns the empty list when nothing exists at the shared
\* path; otherwise exactly the paths worktree/rel, over all worktrees of the
\* repository, that differ from the caller's file and exist or are links.
\* It never modifies the tree.  "Exists" is the file system's exists, which
\* follows links; an entry that is a link counts whether or not it leads
\* anywhere.
C6_ConflictsExact ==
    (last.op = "conflicts" /\ LastNested) =>
        /\ last.res = "ok"
        /\ fs = last.pre
        /\ last.paths =
             IF ~Exists(fs, LastShared) THEN {}
             ELSE {w \o LastRel : w \in {x \in RepoWorktrees(fs) :
                       /\ x \o LastRel # LastFile.comps
                       /\ EntryAt(fs, x \o LastRel).kind # "absent"}}

\* C6 witness: a shared path, a worktree reported and one not reported
C6_Witness ==
    /\ last.op = "conflicts" /\ last.res = "ok" /\ last.paths # {}
    /\ Cardinality(RepoWorktrees(fs)) > Cardinality(last.paths)
    /\ \E w \in RepoWorktrees(fs) : EntryAt(fs, w \o LastRel).kind = "file"

\* C8: the four operations return NotFound and change nothing when the
\* normalized path is not under repo_root; share does so too when the
\* source does not exist.
C8_NotFoundChangesNothing ==
    /\ (last.op \in {"conflicts", "share", "unshare", "isolate"} /\ ~LastNested)
          => last.res = "NotFound" /\ fs = last.pre
    /\ (last.op = "share" /\ LastNested /\ ~Exists(last.pre, LastFile.comps))
          => last.res = "NotFound" /\ fs = last.pre

\* C8 witness: a share of a path in another worktree, whose file exists
C8_Witness ==
    /\ last.op = "share" /\ ~LastNested /\ last.path.abs
    /\ EntryAt(fs, last.path.comps).kind = "file"

\* C9: isolate returns NotFound and changes nothing when the target does
\* not exist, and when it is a link with nothing at the shared path; it
\* returns Ok and changes nothing when the target exists and is no link.
C9_IsolateErrorsAndNoOp ==
    (last.op = "isolate" /\ LastNested) =>
        /\ ~Exists(last.pre, LastTarget) => last.res = "NotFound" /\ fs = last.pre
        /\ (IsSymlink(last.pre, LastTarget) /\ ~Exists(last.pre, LastShared))
              => last.res = "NotFound" /\ fs = last.pre
        /\ (Exists(last.pre, LastTarget) /\ ~IsSymlink(last.pre, LastTarget))
              => last.res = "ok" /\ fs = last.pre

\* C9 witness: isolate of a link that leads to a file while nothing is at
\* the shared path
C9_Witness ==
    /\ last.op = "isolate" /\ LastNested /\ last.res = "NotFound"
    /\ IsSymlink(last.pre, LastTarget) /\ Exists(last.pre, LastTarget)
    /\ ~Exists(last.pre, LastShared)

\* C10: a successful isolate in worktree W changes only the entry at W/rel,
\* which becomes a copy of the shared content; the shared entry and the
\* entries at rel in the other worktrees are unchanged.
C10_IsolateChangesOnlyTarget ==
    (last.op = "isolate" /\ last.res = "ok" /\ LastNested /\ IsSymlink(last.pre, LastTarget))
      => /\ SameExcept(last.pre, fs, {LastTarget})
         /\ EntryAt(fs, LastTarget).kind \in {"file", "dir"}
         /\ \A x \in ContentAt(fs, LastTarget) : x[2].kind # "link"
         /\ {x[1] : x \in ContentAt(fs, LastTarget)} = {x[1] : x \in ContentAt(fs, LastShared)}
         /\ \A x \in ContentAt(fs, LastTarget) :
               x[2].kind = "file" => x[2].data = DataAt(fs, LastShared \o x[1])

\* C10 witness: a link isolated while another worktree stays linked
C10_Witness ==
    /\ last.op = "isolate" /\ last.res = "ok" /\ LastNested
    /\ IsSymlink(last.pre, LastTarget)
    /\ \E w \in RepoWorktrees(fs) :
          w # last.repo_root /\ EntryAt(fs, w \o LastRel) = LinkEntry(LastShared)

\* C7: unshare only removes symbolic links located at worktree/rel in the
\* worktrees of the repository: every entry under shared storage and every
\* non-link entry of every worktree is unchanged; the count returned is the
\* number of links removed, and it is 0, with nothing changed, when no
\* worktree has a link at the path.
C7_UnshareRemovesOnlyWorktreeLinks ==
    (last.op = "unshare" /\ last.res = "ok" /\ LastNested) =>
        LET removed == DOMAIN last.pre \ DOMAIN fs
        IN  /\ \A q \in DOMAIN fs : q \in DOMAIN last.pre /\ fs[q] = last.pre[q]
            /\ \A q \in removed :
                  /\ last.pre[q].kind = "link"
                  /\ \E w \in RepoWorktrees(last.pre) : q = w \o LastRel
            /\ last.count = Cardinality(removed)
            /\ (\A w \in RepoWorktrees(last.pre) : ~IsSymlink(last.pre, w \o LastRel))
                  => last.count = 0 /\ fs = last.pre

\* the entries strictly below the repository's shared-storage root
SharedEntries(t) == {q \in DOMAIN t : IsPrefix(SharedRoot, q) /\ q # SharedRoot}
\* the place in worktree w that mirrors the shared entry q
Mirror(w, q) == w \o SubSeq(q, Len(SharedRoot) + 1, Len(q))

\* what mount promises for the worktree w
Mounted(t, w) ==
    \A q \in SharedEntries(t) :
        IF t[q].kind = "dir" THEN IsDir(t, Mirror(w, q))
        ELSE EntryAt(t, Mirror(w, q)) = LinkEntry(q)

\* C11: after mount(repo_root) returns Ok, every non-directory entry E below
\* the shared-storage root has at repo_root/rel(E) a symbolic link to E, and
\* every directory below the shared-storage root has a directory at the same
\* relative path under repo_root.
C11_MountMirrorsSharedStorage ==
    (last.op = "mount" /\ last.res = "ok") => Mounted(fs, last.repo_root)

\* C12: after the split use case succeeds for a repository that has shared
\* files, the new worktree holds, at the mirrored path of every shared file,
\* a symbolic link to the shared copy.
C12_SplitLinksNewWorktree ==
    (last.op = "split" /\ last.res = "ok") =>
        \A q \in SharedEntries(fs) :
            fs[q].kind = "file" => EntryAt(fs, Mirror(last.path.comps, q)) = LinkEntry(q)

\* the paths share has placed in shared storage: real content stands at the
\* shared place of rel and a worktree holds the link share makes for it
SharePlaced(t) ==
    {rel \in {<<F>>, <<D>>, <<D, F>>} :
        /\ EntryAt(t, SharedRoot \o rel).kind \in {"file", "dir"}
        /\ \E w \in RepoWorktrees(t) : EntryAt(t, w \o rel) = LinkEntry(SharedRoot \o rel)}

\* C27 as stated: after mount(W), every entry share placed in shared
\* storage, file or directory, has at W/rel the symbolic link share creates
\* in a worktree: a link to the shared entry of rel.
C27_MountLinksLikeShare ==
    (last.op = "mount" /\ last.res = "ok") =>
        \A rel \in SharePlaced(last.pre) :
            EntryAt(fs, last.repo_root \o rel) = LinkEntry(SharedRoot \o rel)

\* C27 amended: after mount(W) returns Ok, every entry below the
\* shared-storage root that is not a directory has at the mirrored place in
\* W a symbolic link to it; a directory of shared storage is not linked as
\* a whole: a link to it stands at the mirrored place only if it stood
\* there before the call.
C27_MountLinksFiles ==
    (last.op = "mount" /\ last.res = "ok") =>
        \A q \in SharedEntries(fs) :
            IF fs[q].kind # "dir"
              THEN EntryAt(fs, Mirror(last.repo_root, q)) = LinkEntry(q)
              ELSE EntryAt(fs, Mirror(last.repo_root, q)) = LinkEntry(q)
                     => EntryAt(last.pre, Mirror(last.repo_root, q)) = LinkEntry(q)

\* mount has linked a file inside a directory that share had linked as a
\* whole elsewhere, and the directory itself is no link in this worktree
C27_Witness ==
    /\ last.op = "mount" /\ last.res = "ok"
    /\ <<D>> \in SharePlaced(last.pre)
    /\ EntryAt(fs, last.repo_root \o <<D>>) = DirEntry
    /\ EntryAt(last.pre, last.repo_root \o <<D, F>>).kind = "file"
    /\ EntryAt(fs, last.repo_root \o <<D, F>>) = LinkEntry(SharedRoot \o <<D, F>>)
    /\ EntryAt(fs, SharedRoot \o <<D, F>>).kind = "file"

\* C29: when no shared-storage directory exists for the repository, the
\* split use case creates the worktree and returns Ok, mounting nothing.
C29_SplitWithoutSharedStorage ==
    (/\ last.op = "split"
     /\ ~Exists(last.pre, SharedRoot)
     /\ ~Exists(last.pre, last.path.comps))
        => (last.res = "ok" /\ IsGitRepository(fs, last.path.comps))

\* the tree holds no symbolic link
LinkFree(t) == \A q \in DOMAIN t : t[q].kind # "link"
\* no entry below the shared-storage root is a symbolic link
SharedLinkFree(t) == \A q \in SharedEntries(t) : t[q].kind # "link"
\* every link inside a worktree of the repository resolves
LinksResolve(t) ==
    \A q \in DOMAIN t :
        (t[q].kind = "link" /\ \E w \in RepoWorktrees(t) : IsPrefix(w, q)) => Exists(t, q)
\* the call l was a successful call of the engine
Succeeded(l) == l.op \in {"share", "unshare", "isolate", "mount"} /\ l.res = "ok"

\* C30: starting from a tree without symbolic links, after one or two
\* successful calls of share, unshare, isolate and mount no entry below the
\* shared-storage root is a symbolic link and every link in a worktree
\* resolves.
C30_SharedStorageHoldsNoLinks ==
    /\ []((steps = 1 /\ LinkFree(last.pre) /\ Succeeded(last))
            => (SharedLinkFree(fs) /\ LinksResolve(fs)))
    /\ [][(steps = 1 /\ LinkFree(last.pre) /\ Succeeded(last) /\ Succeeded(last'))
            => (SharedLinkFree(fs') /\ LinksResolve(fs'))]_vars

\* the links that stand at the path of the last call in the worktrees and
\* point somewhere else than to the shared-storage entry of the path
ForeignLinks ==
    {w \o LastRel : w \in {x \in RepoWorktrees(last.pre) :
        /\ EntryAt(last.pre, x \o LastRel).kind = "link"
        /\ EntryAt(last.pre, x \o LastRel) # LinkEntry(LastShared)}}

\* C31: unshare leaves in place a symbolic link at the path that does not
\* point to the shared-storage entry of the path, and counts only the links
\* to that entry, which it removes.
C31_UnshareKeepsForeignLinks ==
    (last.op = "unshare" /\ LastNested /\ last.res = "ok") =>
        /\ \A q \in ForeignLinks : EntryAt(fs, q) = EntryAt(last.pre, q)
        /\ last.count = Cardinality({w \in RepoWorktrees(last.pre) :
                            EntryAt(last.pre, w \o LastRel) = LinkEntry(LastShared)})

\* what stands at and below the shared-storage root
SharedStorage(t) == {<<q, t[q]>> : q \in {x \in DOMAIN t : IsPrefix(SharedRoot, x)}}

\* C32: mount, and the split use case that calls it, leave the entries at
\* and below the shared-storage root as they were, whatever they return.
C32_MountLeavesSharedStorage ==
    last.op \in {"mount", "split"} => SharedStorage(fs) = SharedStorage(last.pre)

\* C13: once share has succeeded for a path p, real (non-link) content stays
\* at the shared-storage path of p whatever is called next: conflicts, share
\* (of p, of a parent directory or of a child of p), unshare, isolate, mount.
C13_SharedContentStays ==
    [][(SharedNow /\ EntryAt(fs, LastShared).kind \in {"file", "dir"})
          => EntryAt(fs', LastShared).kind \in {"file", "dir"}]_vars

\* the last call was a share of a path, inside the caller's worktree, at
\* which a symbolic link stood
ShareOfLink ==
    /\ last.op = "share" /\ LastNested
    /\ IsSymlink(last.pre, LastFile.comps)

\* C22: share on a source path that is a symbolic link returns Ok and leaves
\* the tree unchanged, whatever the link points to: the shared entry, some
\* other place, or nothing.
C22_ShareOfLinkIsNoOp == ShareOfLink => (last.res = "ok" /\ fs = last.pre)

\* the last call was a share that moved a source to a shared path which
\* held something else
Overwrote ==
    /\ SharedNow
    /\ Exists(last.pre, LastShared)
    /\ ContentAt(last.pre, LastShared) # ContentAt(last.pre, LastFile.comps)

\* what the files at and below p hold
DataBelow(t, p) == {e[2].data : e \in {x \in ContentAt(t, p) : x[2].kind = "file"}}
\* what the files of the whole tree hold
DataOf(t) == {t[q].data : q \in {x \in DOMAIN t : t[x].kind = "file"}}

\* C23: last share wins.  When share succeeds for a source that is no link
\* while the shared path holds other content, afterwards the shared entry
\* holds exactly the source's content, what the shared path held before is
\* nowhere in the tree, and in every worktree the entry at the path is a
\* symbolic link to the shared entry.
C23_LastShareWins ==
    Overwrote =>
        /\ ContentAt(fs, LastShared) = ContentAt(last.pre, LastFile.comps)
        /\ \A d \in DataBelow(last.pre, LastShared) \ DataBelow(last.pre, LastFile.comps) :
               d \in DataOf(fs) => \E q \in DOMAIN last.pre :
                    /\ ~IsPrefix(LastShared, q)
                    /\ last.pre[q] = FileEntry(d)
        /\ \A w \in RepoWorktrees(fs) :
               /\ EntryAt(fs, w \o LastRel) = LinkEntry(LastShared)
               /\ ContentAt(fs, Stat(fs, w \o LastRel).at) = ContentAt(last.pre, LastFile.comps)

\* the paths conflicts reports for the call share_files was run with
ConflictsBefore ==
    Conflicts(last.pre, InfoOf(last.repo_root), Root, last.cwd, last.repo_root, last.path).paths

ShareInvoked == \E i \in DOMAIN last.calls : last.calls[i] = "share"

\* C20: when conflicts reports a path and the user declines, share_files
\* returns UserCancelled, share is not invoked and the tree is unchanged;
\* share is invoked only after conflicts returned empty or the user said yes.
C20_DeclineCancelsShare ==
    last.op = "share_files" =>
        /\ (ConflictsBefore # {} /\ last.answer = "no") =>
               (last.res = "UserCancelled" /\ ~ShareInvoked /\ fs = last.pre)
        /\ ShareInvoked => (ConflictsBefore = {} \/ last.answer = "yes")
        /\ (ConflictsBefore # {} /\ last.res \notin {"NotFound", "ParseFailed"}) =>
               last.answer # "none"

\* the user declined a share that had a conflict
C20_Witness ==
    /\ last.op = "share_files"
    /\ ConflictsBefore # {}
    /\ last.answer = "no"
    /\ last.res = "UserCancelled"

\* the real (non-link) files and directories inside the worktrees other
\* than the caller's that the last call removed or replaced
LostElsewhere ==
    {q \in DOMAIN last.pre :
        /\ \E w \in RepoWorktrees(last.pre) \ {last.repo_root} : IsPrefix(w, q) /\ q # w
        /\ last.pre[q].kind \in {"file", "dir"}
        /\ (q \notin DOMAIN fs \/ fs[q] # last.pre[q])}

\* C28: share_files removes or replaces a real file or directory of
\* another worktree only if its path was printed in the list of files to be
\* overwritten (it, or the directory holding it) and the user confirmed.
C28_NothingLostUnasked ==
    last.op = "share_files" =>
        \A q \in LostElsewhere :
            /\ last.answer = "yes"
            /\ \E c \in ConflictsBefore : IsPrefix(c, q)

\* the user agreed and the conflicting file was replaced
C20_Agreed ==
    /\ last.op = "share_files"
    /\ ConflictsBefore # {}
    /\ last.answer = "yes"
    /\ ShareInvoked
    /\ fs # last.pre

(***************************************************************************)
(* The scanner on its own: trees under the managed root that hold          *)
(* repositories (.git a directory), worktrees (.git a file), plain         *)
(* directories, files, repositories inside other directories and inside    *)
(* repositories, and links to a repository, to ancestors and to nothing.   *)
(***************************************************************************)
\* the directory of the repository's first worktree: a repository, a
\* worktree, a directory without .git, or one whose .git is a link to nothing
MainKinds == {"repo", "worktree", "plain", "broken"}
\* a link beside the worktrees: none, to the first worktree, to the root,
\* to its own parent, to nothing
LinkKinds == {"none", "to-repo", "to-root", "to-parent", "dangling"}
\* a repository elsewhere: of another user, of another host
ElseKinds == {"none", "user", "host"}

Dirs(ps) == {<<p, DirEntry>> : p \in ps}
\* the directory p as a repository
RepoAt(p) == {<<p, DirEntry>>, <<Append(p, DotGit), DirEntry>>}

ScanTree(main, sub, slash, ext, els, shared, link) ==
    LET u == Root \o <<Host, User>>
        w == Worktree(1)
        l == Append(u, <<"r", "+", "l">>)
    IN  TreeOf(
          Dirs({<<>>, Root, Append(Root, Host), u})
          \cup {<<Append(Root, <<"n", "o", "t", "e">>), FileEntry(7)>>}
          \cup (CASE main = "repo" -> RepoAt(w)
                  [] main = "worktree" -> {<<w, DirEntry>>, <<Append(w, DotGit), FileEntry(0)>>}
                  [] main = "broken" -> {<<w, DirEntry>>, <<Append(w, DotGit), LinkEntry(Nowhere)>>}
                  [] OTHER -> Dirs({w}))
          \cup (IF sub THEN RepoAt(Append(w, <<"s">>)) ELSE {})
          \cup (IF slash THEN Dirs({Worktree(2)}) \cup RepoAt(Append(Worktree(2), <<"x">>)) ELSE {})
          \cup (IF ext THEN RepoAt(OtherWorktree) ELSE {})
          \cup (CASE els = "user" -> Dirs({Root \o <<Host, <<"v">>>>})
                                     \cup RepoAt(Root \o <<Host, <<"v">>, <<"r", "+", "m">>>>)
                  [] els = "host" -> Dirs({Root \o <<<<"k">>>>, Root \o <<<<"k">>, User>>})
                                     \cup RepoAt(Root \o <<<<"k">>, User, <<"r", "+", "m">>>>)
                  [] OTHER -> {})
          \cup (IF shared
                  THEN Dirs({Append(Root, DotShared), Root \o <<DotShared, Host>>,
                             Root \o <<DotShared, Host, User>>, SharedRoot})
                       \cup RepoAt(Append(SharedRoot, D))
                  ELSE {})
          \cup (CASE link = "to-repo" -> {<<l, LinkEntry(w)>>}
                  [] link = "to-root" -> {<<l, LinkEntry(Root)>>}
                  [] link = "to-parent" -> {<<l, LinkEntry(u)>>}
                  [] link = "dangling" -> {<<l, LinkEntry(Nowhere)>>}
                  [] OTHER -> {}))

ScanTrees ==
    {ScanTree(main, sub, slash, ext, els, shared, link) :
        main \in MainKinds, sub \in BOOLEAN, slash \in BOOLEAN, ext \in BOOLEAN,
        els \in ElseKinds, shared \in BOOLEAN, link \in LinkKinds}

InitScan ==
    /\ fs \in ScanTrees
    /\ last = NoOp(fs)
    /\ steps = 0

\* one call of the scanner: v is what it returned
Scanned(op, v) ==
    /\ steps < MaxSteps
    /\ fs' = fs
    /\ last' = [op |-> op, ok |-> v.ok, ends |-> v.ends, list |-> v.list, pre |-> fs]
    /\ steps' = steps + 1

DoScanRepositories == Scanned("scan_repositories", ScanRepositories(fs, Root))

DoScanWorktrees == Scanned("scan_worktrees", ScanWorktrees(fs, Root, Info))

NextScan == DoScanRepositories \/ DoScanWorktrees

SpecScan == InitScan /\ [][NextScan]_vars

\* the elements of a sequence
Range(q) == {q[i] : i \in DOMAIN q}
\* no element twice
NoRepeat(q) == \A i, j \in DOMAIN q : q[i] = q[j] => i = j
\* the directory d directly holds a .git entry, a directory or a file (a
\* link to nothing is neither)
HoldsGit(t, d) ==
    /\ Append(d, DotGit) \in DOMAIN t
    /\ t[Append(d, DotGit)].kind = "link" => t[Append(d, DotGit)].target \in DOMAIN t
\* the repositories scan_repositories is to find: real directories (every
\* path of the tree runs through real directories only) strictly below the
\* root that hold .git while no directory between the root and them does
ReposBelow(t, root) ==
    {d \in DOMAIN t :
        /\ IsPrefix(root, d) /\ d # root
        /\ t[d].kind = "dir" /\ HoldsGit(t, d)
        /\ \A k \in (Len(root) + 1) .. (Len(d) - 1) : ~HoldsGit(t, SubSeq(d, 1, k))}

\* C14: scan_repositories(root) returns, once each and nothing else, the
\* directories strictly below root that directly hold .git, are not reached
\* through a symbolic link, and have no directory holding .git between root
\* and them; so no returned path lies below another one.
C14_ScanFindsExactlyTheRepositories ==
    last.op = "scan_repositories" =>
        /\ last.ok
        /\ NoRepeat(last.list)
        /\ Range(last.list) = ReposBelow(fs, Root)
        /\ \A a, b \in Range(last.list) : IsPrefix(a, b) => a = b

\* C14 witness: a scan that passes a link to a repository, a repository
\* inside a repository, and finds three repositories or more
C14_Witness ==
    /\ last.op = "scan_repositories" /\ Len(last.list) >= 3
    /\ \E p \in DOMAIN fs : fs[p].kind = "link" /\ IsGitRepository(fs, p)
    /\ \E d \in DOMAIN fs : HoldsGit(fs, d) /\ d \notin Range(last.list)

\* C15: scan_repositories ends on every tree, also when a link leads back to
\* one of its own ancestors, and reports a repository that a link leads to
\* only once.
C15_ScanEndsAndReportsOnce ==
    last.op = "scan_repositories" =>
        /\ last.ends
        /\ \A i, j \in DOMAIN last.list :
              Stat(fs, last.list[i]).at = Stat(fs, last.list[j]).at => i = j

\* C15 witness: a scan of a tree with a link to the root
C15_Witness ==
    /\ last.op = "scan_repositories" /\ last.ok /\ last.list # <<>>
    /\ \E p \in DOMAIN fs : fs[p].kind = "link" /\ fs[p].target = Root

\* the worktrees of the repository among the repositories found: those in
\* root/host/user whose name begins with repo+
WorktreesBelow(t) ==
    {d \in ReposBelow(t, Root) :
        /\ Len(d) > Len(Root) + 2
        /\ SubSeq(d, 1, Len(Root) + 2) = Root \o <<Host, User>>
        /\ IsPrefix(Append(Repo, Plus), d[Len(Root) + 3])}

\* C16: scan_worktrees(root, info) returns the paths of scan_repositories
\* that start with root/host/user/repo+ : every worktree of the repository,
\* no worktree of a repository whose name extends repo, of another user or
\* host, and no path under .shared.
C16_ScanWorktreesFilters ==
    last.op = "scan_worktrees" =>
        /\ last.ok
        /\ NoRepeat(last.list)
        /\ Range(last.list) = WorktreesBelow(fs)

\* C16 witness: two worktrees returned, beside a repository r2, one of
\* another user and one under .shared
C16_Witness ==
    /\ last.op = "scan_worktrees" /\ Len(last.list) = 2
    /\ Cardinality(ReposBelow(fs, Root)) >= 5
    /\ OtherWorktree \in ReposBelow(fs, Root)
    /\ Append(SharedRoot, D) \in ReposBelow(fs, Root)

(***************************************************************************)
(* RepoInfo's conversions are pure: they are applied to given URLs and to   *)
(* paths built by build_repo_path, one call after the other.               *)
(***************************************************************************)
MaxNameLen == 2
MaxBranchLen == 3

\* every string of at most n of the given characters
RECURSIVE StringsOf(_, _)
StringsOf(chars, n) ==
    IF n = 0 THEN {<<>>}
    ELSE LET shorter == StringsOf(chars, n - 1)
         IN  shorter \cup {Append(str, ch) : str \in shorter, ch \in chars}

NameChars == {"h", "."}
BranchChars == {"b", Slash, Dot[1], Plus}
Names == StringsOf(NameChars, MaxNameLen)
BranchNames == StringsOf(BranchChars, MaxBranchLen)
Roots == {<<>>, Root}

\* the paths from_path is given: build_repo_path's, under either root
PathInputs ==
    [op : {"info"}, root : Roots, under : Roots,
     info : {RepoInfo(h, u, r) : h \in Names, u \in {<<>>, User, Dot}, r \in Names},
     branch : BranchNames]

Http == <<"h", "t", "t", "p", ":", "/", "/">>
DotGitTwice == DotGit \o DotGit

\* the URLs from_url is given, piece by piece
UrlInputs ==
    [op : {"url"}, lpad : {<<>>, <<Space>>}, rpad : {<<>>, <<Space>>},
     prefix : {Https, SshGit, GitAt, Http, <<>>},
     host : {<<>>, Host, Host \o <<Slash>> \o User},
     sep : {<<>>, <<Slash>>, <<Colon>>},
     user : {<<>>, User},
     sep2 : {<<>>, <<Slash>>},
     repo : {<<>>, Repo},
     suffix : {<<>>, DotGit, DotGitTwice, <<Slash>> \o Repo}]

\* the URL without the blanks around it, and with them
UrlBody(c) == c.prefix \o c.host \o c.sep \o c.user \o c.sep2 \o c.repo \o c.suffix
UrlOf(c) == c.lpad \o UrlBody(c) \o c.rpad

InitCodec ==
    /\ fs = TreeOf({})
    /\ last \in PathInputs \cup UrlInputs
    /\ steps = 0

DoFromUrl ==
    /\ last.op = "url"
    /\ steps < MaxSteps
    /\ last' = [op |-> "from_url", given |-> last, url |-> UrlOf(last),
                res |-> FromUrl(UrlOf(last))]
    /\ steps' = steps + 1
    /\ UNCHANGED fs

DoBuildRepoPath ==
    /\ last.op = "info"
    /\ steps < MaxSteps
    /\ last' = [op |-> "build_repo_path", given |-> last,
                path |-> BuildRepoPath(last.under, last.info, last.branch)]
    /\ steps' = steps + 1
    /\ UNCHANGED fs

DoFromPath ==
    /\ last.op = "build_repo_path"
    /\ steps < MaxSteps
    /\ last' = [op |-> "from_path", given |-> last.given, path |-> last.path,
                res |-> FromPath(last.given.root, last.path)]
    /\ steps' = steps + 1
    /\ UNCHANGED fs

NextCodec == DoFromUrl \/ DoBuildRepoPath \/ DoFromPath

SpecCodec == InitCodec /\ [][NextCodec]_vars

\* a name the data model allows: not empty, no separator, and no '+'
ValidName(n) == n # <<>> /\ Find(n, Slash) = 0 /\ Find(n, Plus) = 0

ValidInfo(info) == ValidName(info.host) /\ ValidName(info.user) /\ ValidName(info.repo)

\* from_path was given the path build_repo_path made under the same root
RoundTrip ==
    /\ last.op = "from_path"
    /\ last.given.root = last.given.under
    /\ ValidInfo(last.given.info)

Recovered ==
    /\ last.res.ok
    /\ last.res.info = last.given.info
    /\ last.res.branch = Some(last.given.branch)

\* C17 as stated: for every root, every (host, user, repo) of non-empty
\* names without '+' or separators and every branch, from_path of
\* build_repo_path returns Ok with the same host, user, repo and branch.
C17_RoundTripEveryBranch == RoundTrip => Recovered

\* a branch written the way a path keeps it: not empty, and after its first
\* segment no segment that is empty or "."
KeptBranch(branch) ==
    /\ branch # <<>>
    /\ \A i \in 2..Len(Split(branch, Slash)) : IsComponent(Split(branch, Slash)[i])

\* C17, amended: the round trip returns Ok with the same host, user, repo and
\* branch for every root, every valid (host, user, repo) whose host and user
\* are not ".", and every non-empty branch that has, after its first
\* '/'-separated segment, no segment that is empty or "." (so no doubled or
\* trailing '/'); branches of several segments are rejoined with '/'.
C17_RoundTripKeptBranch ==
    (/\ RoundTrip
     /\ last.given.info.host # Dot
     /\ last.given.info.user # Dot
     /\ KeptBranch(last.given.branch)) => Recovered

\* a branch of two segments came back whole
C17_Witness ==
    /\ RoundTrip
    /\ last.given.info.host # Dot
    /\ last.given.info.user # Dot
    /\ last.given.branch = <<"b", Slash, "b">>
    /\ Recovered

\* C18: every RepoInfo from_url or from_path returns as Ok has a non-empty
\* host, user and repo without a path separator; an input that would give
\* an empty one is rejected.
C18_ParsedNamesAreValid ==
    (last.op \in {"from_url", "from_path"} /\ last.res.ok) =>
        \A n \in {last.res.info.host, last.res.info.user, last.res.info.repo} :
            n # <<>> /\ Find(n, Slash) = 0

\* the shape the trimmed URL has, if it has one: the format whose prefix it
\* starts with
ShapesOf(body) == {i \in DOMAIN Formats : IsPrefix(Formats[i].prefix, body)}
AfterPrefix(body, i) == SubSeq(body, Len(Formats[i].prefix) + 1, Len(body))
AfterSeparator(body, i) ==
    LET rest == AfterPrefix(body, i)
    IN  SubSeq(rest, Find(rest, Formats[i].separator) + 1, Len(rest))

\* a repo segment without one trailing ".git"
WithoutDotGit(seg) == IF IsSuffix(DotGit, seg) THEN SubSeq(seg, 1, Len(seg) - Len(DotGit)) ELSE seg

\* C19: from_url of {prefix}{host}{separator}{user}/{repo}[.git], blanks
\* around it or not, returns (host, user, repo) with one trailing .git
\* removed; it returns an error when the trimmed input has none of the three
\* prefixes, or lacks the shape's separator, or has fewer than two path
\* segments after it.
C19_FromUrlShapes ==
    last.op = "from_url" =>
        LET c == last.given
            body == UrlBody(c)
            shapes == ShapesOf(body)
            seg == c.repo \o c.suffix
        IN  /\ (/\ \E i \in DOMAIN Formats :
                      c.prefix = Formats[i].prefix /\ c.sep = <<Formats[i].separator>>
                /\ c.sep2 = <<Slash>>
                /\ Find(seg, Slash) = 0
                /\ ValidName(c.host) /\ ValidName(c.user) /\ ValidName(WithoutDotGit(seg)))
               => (last.res.ok /\ last.res.info = RepoInfo(c.host, c.user, WithoutDotGit(seg)))
            /\ shapes = {} => ~last.res.ok
            /\ \A i \in shapes :
                  (\/ Find(AfterPrefix(body, i), Formats[i].separator) = 0
                   \/ Find(AfterSeparator(body, i), Slash) = 0) => ~last.res.ok

(***************************************************************************)
(* Directories that cannot be listed.  The scans and the operations that   *)
(* scan are run on trees in which one directory has lost its read          *)
(* permission: the root, a directory on the way to the worktrees, one      *)
(* beside them, or one inside a repository, where no scan goes.            *)
(***************************************************************************)
LockedPlaces ==
    {Root, Append(Root, Host), Root \o <<Host, User>>, Root \o <<Host, <<"v">>>>,
     Root \o <<Host, User, <<"p">>>>, Append(OtherWorktree, D)}

\* the trees before a directory is locked: two worktrees holding f and d/f,
\* nothing shared yet or d or d/f shared
FaultBase ==
    {TreeOf(Skeleton \cup WorktreeItems(1, "file", "full") \cup WorktreeItems(2, "file", "full"))}
    \cup SharedTrees

FaultTrees == FaultBase \cup {Put(t, p, LockedEntry) : t \in FaultBase, p \in LockedPlaces}

InitFaults ==
    /\ fs \in FaultTrees
    /\ last = NoOp(fs)
    /\ steps = 0

NextFaults == DoScanRepositories \/ DoScanWorktrees \/ DoConflicts \/ DoShare \/ DoUnshare

SpecFaults == InitFaults /\ [][NextFaults]_vars

\* the directories a scan of root lists: root, and every directory below it
\* that neither holds .git nor lies below one that does
Listed(t, root) ==
    {d \in DOMAIN t :
        /\ IsPrefix(root, d) /\ t[d].kind = "dir"
        /\ \A k \in (Len(root) + 1) .. Len(d) : ~HoldsGit(t, SubSeq(d, 1, k))}

\* listing one of them fails
ListingFails(t, root) == \E d \in Listed(t, root) : t[d] = LockedEntry

\* C21: if listing a directory fails during scan_repositories, at the root
\* or at any depth, the scan returns an error and no list, and so does
\* scan_worktrees; conflicts, unshare and share return the scan's error once
\* they come to scan (conflicts: once the shared path exists; share: once
\* the source, which is no link, has been moved).
C21_ListingFailureAbortsScan ==
    ListingFails(last.pre, Root) =>
        /\ last.op \in {"scan_repositories", "scan_worktrees"} =>
               (~last.ok /\ last.list = <<>>)
        /\ (last.op = "unshare" /\ LastNested) => (last.res = "Scan" /\ fs = last.pre)
        /\ (last.op = "conflicts" /\ LastNested /\ Exists(last.pre, LastShared)) =>
               (last.res = "Scan" /\ last.paths = {})
        /\ (last.op = "share" /\ LastNested /\ Exists(last.pre, LastFile.comps)
              /\ ~IsSymlink(last.pre, LastFile.comps)) => last.res \in {"Scan", "FileSystem"}

\* a scan failed on a directory two levels below the root, with
\* repositories beside it that it could have listed
C21_Witness ==
    /\ last.op = "scan_repositories"
    /\ EntryAt(fs, Root \o <<Host, <<"v">>>>) = LockedEntry
    /\ ReposBelow(fs, Root) # {}
    /\ ~last.ok /\ last.list = <<>>

\* a share stopped at its scan, after the move
C21_ShareStopped ==
    /\ last.op = "share" /\ last.res = "Scan"
    /\ ListingFails(last.pre, Root)
    /\ fs # last.pre

(***************************************************************************)
(* share and mount one filesystem call at a time.  Two processes run one   *)
(* operation each on the same tree; `last` holds the two runs: for each    *)
(* its place in the code (pc), its local variables and, once it has        *)
(* returned, its result.  `steps` counts the operations that have returned.*)
(***************************************************************************)
\* a process that runs nothing
NoRun ==
    [op |-> "none", pc |-> "done", res |-> "ok", repo_root |-> <<>>, file |-> <<>>,
     relative_path |-> RelPath(<<>>), shared_path |-> <<>>, worktrees |-> <<>>,
     queue |-> <<>>, todo |-> {}, made |-> {}, budget |-> 0]

\* share(repo_root, rel), called at the root of the worktree: the values
\* computed before the first filesystem call
ShareRun(repo_root, rel) ==
    [NoRun EXCEPT !.op = "share", !.pc = "exists_file", !.res = "running",
                  !.repo_root = repo_root, !.file = repo_root \o rel,
                  !.relative_path = RelPath(rel),
                  !.shared_path = BuildSharedPath(Root, Info, rel)]

\* mount(repo_root); shared_path holds shared_root
MountRun(repo_root) ==
    [NoRun EXCEPT !.op = "mount", !.pc = "exists_root", !.res = "running",
                  !.repo_root = repo_root,
                  !.shared_path = BuildSharedPath(Root, Info, <<>>)]

\* return
Return(p, kind) == [p EXCEPT !.pc = "done", !.res = kind]

\* Try, had the engine moved the shared entry back to the source location
\* when a step fails
TryMovingBack(p, r, q) ==
    IF r.ok THEN [run |-> q, fs |-> r.fs]
    ELSE [run |-> Return(p, "FileSystem"), fs |-> Rename(r.fs, p.shared_path, p.file).fs]

\* the run after a filesystem call r that may fail: on success it goes on
\* as q, on failure the error is returned (the `?` operator)
Try(p, r, q) ==
    IF r.ok THEN [run |-> q, fs |-> r.fs] ELSE [run |-> Return(p, "FileSystem"), fs |-> r.fs]

\* the run after a call that only reads
Go(q, t) == [run |-> q, fs |-> t]

At(p, pc) == [p EXCEPT !.pc = pc]

\* the worktree the loop of share is at, and the place of its link
ShareTarget(p) == JoinPath(Head(p.worktrees), p.relative_path)

\* the scan of share: the worktrees in the order ord
Scanned2(p, worktrees, ord) ==
    IF worktrees.ok
      THEN [At(p, "loop") EXCEPT !.worktrees = SelectSeq(ord, LAMBDA w : w \in worktrees.repos)]
      ELSE Return(p, "Scan")

\* one filesystem call of share (lines 128-163)
ShareStep(p, t, ord) ==
    CASE p.pc = "exists_file" ->
           Go(IF Exists(t, p.file) THEN At(p, "is_symlink") ELSE Return(p, "NotFound"), t)
      [] p.pc = "is_symlink" ->
           Go(IF IsSymlink(t, p.file) THEN Return(p, "ok") ELSE At(p, "create_dir"), t)
      [] p.pc = "create_dir" ->
           Try(p, CreateDir(t, Front(p.shared_path)), At(p, "exists_shared"))
      [] p.pc = "exists_shared" ->
           Go(IF Exists(t, p.shared_path) THEN At(p, "remove_shared") ELSE At(p, "rename"), t)
      [] p.pc = "remove_shared" -> Try(p, Remove(t, p.shared_path), At(p, "rename"))
      [] p.pc = "rename" -> Try(p, Rename(t, p.file, p.shared_path), At(p, "scan"))
      [] p.pc = "scan" -> Go(Scanned2(p, ScanWorktrees(t, Root, Info), ord), t)
      [] p.pc = "loop" ->
           Go(IF p.worktrees = <<>> THEN Return(p, "ok")
              ELSE IF Exists(t, ShareTarget(p)) \/ IsSymlink(t, ShareTarget(p))
                THEN At(p, "remove_target")
              ELSE At(p, "create_symlink"), t)
      [] p.pc = "remove_target" -> Try(p, Remove(t, ShareTarget(p)), At(p, "create_symlink"))
      [] p.pc = "create_symlink" ->
           Try(p, CreateSymlink(t, p.shared_path, ShareTarget(p)),
               [At(p, "loop") EXCEPT !.worktrees = Tail(@)])

\* the entry the loop of mount is at, and the place of its link
MountEntry(p) == CHOOSE e \in p.todo : TRUE
MountTarget(p) == p.repo_root \o StripPrefix(AbsPath(MountEntry(p)), p.shared_path).rel
\* the directory mount creates for a directory of shared storage (line 89)
MountDir(p) == JoinPath(p.repo_root, AbsPath(MountEntry(p)))

\* the run after read_dir
Listing(p, ents) ==
    IF ents.ok THEN [At(p, "entry") EXCEPT !.todo = ents.items, !.queue = Front(@),
                                           !.budget = @ - 1]
    ELSE Return(p, "FileSystem")

\* one filesystem call of mount (lines 78-106)
MountStep(p, t) ==
    CASE p.pc = "exists_root" ->
           Go(IF Exists(t, p.shared_path)
                THEN [At(p, "read_dir") EXCEPT !.queue = <<p.shared_path>>,
                                               !.budget = Cardinality(DOMAIN t)]
                ELSE Return(p, "NotFound"), t)
      [] p.pc = "read_dir" ->
           Go(IF p.queue = <<>> THEN Return(p, "ok")
              ELSE IF p.budget = 0 THEN Return(p, "diverges")
              ELSE Listing(p, ReadDir(t, p.queue[Len(p.queue)])), t)
      [] p.pc = "entry" ->
           Go(IF p.todo = {} THEN At(p, "read_dir")
              ELSE IF FsIsDir(t, MountEntry(p)) THEN At(p, "create_dir")
              ELSE IF ~StripPrefix(AbsPath(MountEntry(p)), p.shared_path).ok
                THEN Return(p, "Io")
              ELSE IF Exists(t, MountTarget(p)) \/ IsSymlink(t, MountTarget(p))
                THEN At(p, "remove_target")
              ELSE At(p, "create_symlink"), t)
      [] p.pc = "create_dir" ->
           Try(p, CreateDir(t, MountDir(p)),
               [At(p, "entry") EXCEPT !.queue = Append(@, MountEntry(p)),
                                      !.todo = @ \ {MountEntry(p)},
                                      !.made = @ \cup {MountDir(p)}])
      [] p.pc = "remove_target" -> Try(p, Remove(t, MountTarget(p)), At(p, "create_symlink"))
      [] p.pc = "create_symlink" ->
           Try(p, CreateSymlink(t, MountEntry(p), MountTarget(p)),
               [At(p, "entry") EXCEPT !.todo = @ \ {MountEntry(p)}])

\* the operations a process may be asked to run
RunsOf(t) ==
    {NoRun}
    \cup {ShareRun(w, rel) : w \in {x \in AllWorktrees : IsGitRepository(t, x)},
                             rel \in {<<F>>, <<D>>, <<D, F>>}}
    \cup {MountRun(w) : w \in {x \in AllWorktrees : IsGitRepository(t, x)}}

\* the trees the processes start on: two worktrees holding f and d/f,
\* nothing shared yet, or d or d/f shared, or shared and edited;
\* a tree whose second worktree has no directory d, and one with a
\* directory beside the repository that cannot be listed
StepTrees ==
    {TreeOf(Skeleton \cup WorktreeItems(1, "file", "full") \cup WorktreeItems(2, "file", dk)) :
        dk \in {"full", "none"}}
    \cup {Put(TreeOf(Skeleton \cup WorktreeItems(1, "file", "full")
                              \cup WorktreeItems(2, "file", "full")),
               Root \o <<Host, <<"v">>>>, LockedEntry)}
    \cup SharedTrees \cup SplitTrees \cup EditedTrees

InitSteps ==
    /\ fs \in StepTrees
    /\ \E p1, p2 \in RunsOf(fs) :
          last = [op |-> "runs", runs |-> <<p1, p2>>, mixed |-> FALSE, pre |-> fs]
    /\ steps = 0

\* Midway, were a process never taken to be in the middle of its operation
MidwayNever(p) == p.pc = "nowhere"

\* the other process is in the middle of its operation
Midway(p) == p.pc \notin {"exists_file", "exists_root", "done"}

\* process i makes the call r
Advance(i, r) ==
    /\ fs' = r.fs
    /\ last' = [last EXCEPT !.runs[i] = r.run,
                            !.mixed = @ \/ Midway(last.runs[3 - i])]
    /\ steps' = IF r.run.pc = "done" THEN steps + 1 ELSE steps

DoShareStep ==
    \E i \in 1 .. 2, ord \in Orders :
        /\ last.runs[i].op = "share" /\ last.runs[i].pc # "done"
        /\ Advance(i, ShareStep(last.runs[i], fs, ord))

DoMountStep ==
    \E i \in 1 .. 2 :
        /\ last.runs[i].op = "mount" /\ last.runs[i].pc # "done"
        /\ Advance(i, MountStep(last.runs[i], fs))

NextSteps == DoShareStep \/ DoMountStep

SpecSteps == InitSteps /\ [][NextSteps]_vars

(***************************************************************************)
(* Claims about the single filesystem calls of share and mount.            *)
(***************************************************************************)
\* process i runs alone: the other process runs nothing
Alone(i) == last.runs[3 - i] = NoRun

\* process i, a mount running alone, is about to create a link and the
\* creation succeeds
MountLinks(i) ==
    /\ last.runs[i].op = "mount" /\ Alone(i)
    /\ last.runs[i].pc = "create_symlink"
    /\ last'.runs[i].pc = "entry"

\* the directories between repo_root and the place p below it
DirsBetween(repo_root, p) == {SubSeq(p, 1, k) : k \in Len(repo_root) + 1 .. Len(p) - 1}

\* C24: at the moment mount creates a symlink at repo_root/rel, every
\* directory between repo_root and repo_root/rel exists and was created
\* under repo_root by mount when it met the corresponding directory of
\* shared storage, and nothing is present at the place of the link.
C24_ParentsBeforeLinks ==
    [][\A i \in 1 .. 2 :
          MountLinks(i) =>
              /\ \A d \in DirsBetween(last.runs[i].repo_root, MountTarget(last.runs[i])) :
                    IsDir(fs, d) /\ d \in last.runs[i].made
              /\ ~Present(fs, LStat(fs, MountTarget(last.runs[i])))]_vars

\* process i returns an error in this step
Fails(i) ==
    /\ last.runs[i].pc # "done" /\ last'.runs[i].pc = "done"
    /\ last'.runs[i].res # "ok"

\* the places in share after the rename into shared storage
AfterRename == {"scan", "loop", "remove_target", "create_symlink"}

\* the worktrees in which share has placed its link so far
LinkedSoFar(p, t) ==
    {w \in RepoWorktrees(t) : EntryAt(t, JoinPath(w, p.relative_path)) = LinkEntry(p.shared_path)}

\* C25: no rollback.  When a filesystem step of share or mount fails, the
\* operation returns the error and the tree is left as the completed steps
\* made it; for a share that fails after its rename the source's content
\* stays in shared storage, the source location holds nothing but, at
\* most, the link to it, and the worktrees already linked stay linked.
C25_NoRollback ==
    [][\A i \in 1 .. 2 :
          Fails(i) =>
              /\ last'.runs[i].res \in {"NotFound", "FileSystem", "Scan", "Io", "diverges"}
              /\ fs' = fs
              /\ (last.runs[i].op = "share" /\ Alone(i) /\ last.runs[i].pc \in AfterRename) =>
                    /\ ContentAt(fs', last.runs[i].shared_path)
                         = ContentAt(last.pre, last.runs[i].file)
                    /\ EntryAt(fs', last.runs[i].file).kind \in {"absent", "link"}
                    /\ LinkedSoFar(last.runs[i], fs') = LinkedSoFar(last.runs[i], fs)]_vars

\* a share running alone has moved the source, linked a worktree and then
\* failed to link the next one
C25_Witness ==
    \E i \in 1 .. 2 :
        /\ last.runs[i].op = "share" /\ Alone(i)
        /\ last.runs[i].pc = "done" /\ last.runs[i].res = "FileSystem"
        /\ ~Exists(last.pre, last.runs[i].shared_path)
        /\ Exists(fs, last.runs[i].shared_path)
        /\ LinkedSoFar(last.runs[i], fs) # {}
        /\ LinkedSoFar(last.runs[i], fs) # RepoWorktrees(fs)

\* a share running alone has moved the source and failed to scan
C25_ScanFailed ==
    \E i \in 1 .. 2 :
        /\ last.runs[i].op = "share" /\ Alone(i)
        /\ last.runs[i].pc = "done" /\ last.runs[i].res = "Scan"
        /\ Exists(fs, last.runs[i].shared_path)
        /\ ~Exists(fs, last.runs[i].file)

\* a mount running alone has failed after its first steps
C25_MountFailed ==
    \E i \in 1 .. 2 :
        /\ last.runs[i].op = "mount" /\ Alone(i)
        /\ last.runs[i].pc = "done" /\ last.runs[i].res = "FileSystem"

\* the tree after the operation of the run p, made in one piece on the tree t
Whole(p, t, ord) ==
    CASE p.op = "share" ->
           Share(t, Info, Root, p.repo_root, p.repo_root, p.relative_path, ord).fs
      [] p.op = "mount" -> Mount(t, Info, Root, p.repo_root).fs
      [] OTHER -> t

\* the trees the two operations leave when one is run after the other
OneAfterTheOther(t, p1, p2) ==
    {Whole(p2, Whole(p1, t, o1), o2) : o1 \in Orders, o2 \in Orders}
    \cup {Whole(p1, Whole(p2, t, o2), o1) : o1 \in Orders, o2 \in Orders}

BothReturned == last.runs[1].pc = "done" /\ last.runs[2].pc = "done"

\* a share and a mount, or two shares of the same path from two worktrees
Racing ==
    \/ {last.runs[1].op, last.runs[2].op} = {"share", "mount"}
    \/ /\ last.runs[1].op = "share" /\ last.runs[2].op = "share"
       /\ last.runs[1].relative_path = last.runs[2].relative_path
       /\ last.runs[1].repo_root # last.runs[2].repo_root

C26_TwoShares ==
    /\ BothReturned /\ last.mixed /\ Racing
    /\ last.runs[1].op = last.runs[2].op
    /\ fs \notin OneAfterTheOther(last.pre, last.runs[1], last.runs[2])

(***************************************************************************)
(* Two repositories under one managed root.  The operations are run in the *)
(* worktrees of the repository r; beside it stands a repository with       *)
(* worktree, file and shared storage of its own, named r2 or r+2.          *)
(***************************************************************************)
\* a repository whose name holds a '+'
PlusInfo == RepoInfo(Host, User, <<"r", "+", "2">>)
Neighbours == {OtherInfo, PlusInfo}

\* the worktree of the neighbour and its shared-storage root
NeighbourWorktree(b) == BuildRepoPath(Root, b, Branches[1])
NeighbourShared(b) == BuildSharedPath(Root, b, <<>>)

\* the neighbour's entries: a worktree holding f and d/f, and a shared file
NeighbourItems(b) ==
    {<<NeighbourWorktree(b), DirEntry>>,
     <<Append(NeighbourWorktree(b), DotGit), DirEntry>>,
     <<Append(NeighbourWorktree(b), F), FileEntry(8)>>,
     <<Append(NeighbourWorktree(b), D), DirEntry>>,
     <<NeighbourWorktree(b) \o <<D, F>>, FileEntry(18)>>,
     <<SubSeq(NeighbourShared(b), 1, Len(Root) + 1), DirEntry>>,
     <<SubSeq(NeighbourShared(b), 1, Len(Root) + 2), DirEntry>>,
     <<SubSeq(NeighbourShared(b), 1, Len(Root) + 3), DirEntry>>,
     <<NeighbourShared(b), DirEntry>>,
     <<Append(NeighbourShared(b), F), FileEntry(7)>>}

\* the trees of the repository r, with something shared or not, and one
\* neighbour beside it
RepoTrees ==
    {t @@ TreeOf(NeighbourItems(b)) :
        t \in {TreeOf(Skeleton \cup WorktreeItems(1, "file", "full")
                               \cup WorktreeItems(2, "file", "full"))}
              \cup SharedTrees \cup EditedTrees,
        b \in Neighbours}

\* the orders in which a scan may list the worktrees of both repositories
OrdersAmong ==
    LET all == AllWorktrees \cup {NeighbourWorktree(b) : b \in Neighbours}
    IN  {o \in [1 .. Cardinality(all) -> all] : \A i, j \in DOMAIN o : o[i] = o[j] => i = j}

InitRepos ==
    /\ fs \in RepoTrees
    /\ last = NoOp(fs)
    /\ steps = 0

\* share, called in a worktree of r
DoShareAmong ==
    \E c \in Calls(fs), ord \in OrdersAmong :
        Step("share", c.repo_root, c.repo_root \o c.cwd, c.path,
             Share(fs, InfoOf(c.repo_root), Root, c.repo_root \o c.cwd, c.repo_root, c.path, ord))

NextRepos == DoShareAmong \/ DoUnshare \/ DoIsolate \/ DoMount

SpecRepos == InitRepos /\ [][NextRepos]_vars

\* from_url accepts the names of b: the https URL of b parses to b
Accepted(b) ==
    FromUrl(Https \o b.host \o <<Slash>> \o b.user \o <<Slash>> \o b.repo)
        = [ok |-> TRUE, info |-> b, branch |-> None]

\* what stands inside the worktree and the shared storage of b
Owned(t, b) ==
    {<<q, t[q]>> : q \in {x \in DOMAIN t : \/ IsPrefix(NeighbourWorktree(b), x)
                                            \/ IsPrefix(NeighbourShared(b), x)}}

\* C33: an operation run with the RepoInfo of r changes nothing inside a
\* worktree or the shared storage of a repository with other names that
\* from_url accepts.
C33_RepositoriesAreIsolated ==
    last.op \in {"share", "unshare", "isolate", "mount"} =>
        \A b \in Neighbours :
            (b # InfoOf(last.repo_root) /\ Accepted(b)) => Owned(fs, b) = Owned(last.pre, b)

====
